---- MODULE Spec2Model ----
(***************************************************************************)
(* The spendable-output sweep pipeline of the node: the SpendableOutputs   *)
(* event handler (src/src/main.rs) deposits descriptors into the           *)
(* pending_spendable_outputs directory, and periodic_sweep                 *)
(* (src/src/sweep.rs) relocates them to processing_spendable_outputs,      *)
(* concatenates them into one file of spendable_outputs, and then tries to *)
(* spend every file of spendable_outputs before removing that directory.   *)
(*                                                                         *)
(* A directory is a function from file names to file contents (sequences   *)
(* of bytes); `dirs` is the set of directories that exist.  A file name is *)
(* a record [len, hex, id]: its length in bytes, whether all its           *)
(* characters are hexadecimal digits, and what tells it from other names.  *)
(***************************************************************************)
EXTENDS Integers, Sequences, FiniteSets, TLC

\* ------------------------------------------------------------------ bounds
MaxDeposits == 1
MaxCrashes == 1
MaxTxs == 2
MaxTicks == 2
MaxTime == 12
MaxDescs == 3
MaxEventDescs == 2

\* --------------------------------------------------------------- constants
\* sweep.rs:67  file.file_name().len() == 64
NameLen == 64

\* sweep.rs:56  tokio::time::interval(Duration::from_secs(5))
Period == 5

VARIABLES
    dirs,        \* the directories that exist, a subset of DirNames
    pending,     \* pending_spendable_outputs: name -> bytes (intake)
    processing,  \* processing_spendable_outputs: name -> bytes (staging)
    spendables,  \* spendable_outputs: name -> bytes (claim queue)
    pc,          \* where periodic_sweep stands
    dirIter,     \* names the intake iterator has still to yield
    outputs,     \* the Vec<u8> `outputs` of the consolidation step
    spIter,      \* names the claim-queue iterator has still to yield
    cur,         \* the claim-queue file being attempted: {} or {name}
    descs,       \* the descriptors decoded from it
    txs,         \* number of transactions the signer returned for it
    txi,         \* index of the transaction being handled
    walletLock,  \* who holds the tokio Mutex of the wallet
    yuvClient,   \* whether yuv_client is Some
    depCount,    \* deposits made so far
    crashes,     \* crashes so far
    ticksDone,   \* loop iterations completed since the process started (capped)
    intake0,     \* the intake as it was found when the model starts
    deposited,   \* the descriptors (their bytes) ever stored in intake
    swept,       \* the descriptors that were in the claim queue at a cleanup
    signedLog,   \* transactions signed for the latest batch, in order
    rejectLog,   \* those of them the dry run rejected, in order
    proofLog,    \* those of them whose proofs were published, in order
    bcastLog,    \* those of them broadcast to the base chain, in order
    outcomes,    \* the failures ("key_err", "sign_err") of the latest batch
    panicAt,     \* the step at which the task panicked ("" while it is alive)
    sinceKeyErr, \* 0; 1 once a key resolution failed; 2 once a deposit followed
    scanRes,     \* what read_dir of the intake gave in this iteration of the
                 \* loop: "ok", "empty" (no entry), "err"; "none" between two
    fundPc,      \* where the FundingGenerationReady handler stands
    now,         \* the clock, in seconds since the task was spawned
    deadline,    \* the instant at which the interval completes its next tick
    tickStarts,  \* the instants at which the ticks so far completed their await
    proofTasks,  \* the tasks broadcast_transactions_proofs spawned, not yet run
    proofSent,   \* the transactions whose proof reached the token-layer node
    height,      \* the height of the best block the channel manager knows
    locktime,    \* the locktime handed to the signer for the batch: {} or {n}
    evPc,        \* where the SpendableOutputs handler stands
    evAll,       \* the descriptors of the event it handles
    evLeft,      \* those of them still to be persisted, the first one under way
    evWritten,   \* the intake entries it has written for the event: key -> bytes
    verdict      \* the answer of the node to the dry run last made ("" before)

vars == <<dirs, pending, processing, spendables, pc, dirIter, outputs, spIter,
          cur, descs, txs, txi, walletLock, yuvClient, depCount, crashes,
          ticksDone, intake0, deposited, swept, signedLog, rejectLog,
          proofLog, bcastLog, outcomes, panicAt, sinceKeyErr, scanRes, fundPc,
          now, deadline, tickStarts, proofTasks, proofSent, height, locktime,
          evPc, evAll, evLeft, evWritten, verdict>>

tickVars == <<now, deadline, tickStarts>>

netVars == <<proofTasks, proofSent>>

chainVars == <<height, locktime>>

evVars == <<evPc, evAll, evLeft, evWritten>>

extVars == <<netVars, chainVars, evVars, verdict>>

fsVars == <<dirs, pending, processing, spendables>>
localVars == <<dirIter, outputs, spIter, cur, descs, txs, txi>>
logVars == <<signedLog, rejectLog, proofLog, bcastLog, outcomes>>
envVars == <<yuvClient, depCount, crashes, intake0>>

\* ------------------------------------------------------------ directories
DirNames == {"pending", "processing", "spendables"}

EmptyDir == [n \in {} |-> <<>>]

Restrict(f, S) == [n \in S |-> f[n]]

Remove(f, n) == Restrict(f, DOMAIN f \ {n})

Put(f, n, bytes) == [m \in DOMAIN f \cup {n} |-> IF m = n THEN bytes ELSE f[m]]

\* ------------------------------------------------------------ descriptors
\* A descriptor is written as a tag byte followed by a body whose length the
\* tag decides: the encoding frames itself.
Tags == {1, 2}

DescLen(tag) == IF tag = 1 THEN 40 ELSE 55

Encode(tag, id) == <<tag>> \o [i \in 1..(DescLen(tag) - 1) |-> id]

DescId(frame) == frame[2]

\* A reader that takes every descriptor to be 40 bytes long, whatever its tag.
ReadDescriptor_FixedLen(bytes) ==
    IF bytes # <<>> /\ bytes[1] \in Tags /\ Len(bytes) >= 40
    THEN [ok |-> TRUE,
          desc |-> SubSeq(bytes, 1, 40),
          rest |-> SubSeq(bytes, 41, Len(bytes))]
    ELSE [ok |-> FALSE, desc |-> <<>>, rest |-> <<>>]

\* Readable::read of one descriptor from the front of `bytes`.
ReadDescriptor(bytes) ==
    IF bytes # <<>> /\ bytes[1] \in Tags /\ Len(bytes) >= DescLen(bytes[1])
    THEN [ok |-> TRUE,
          desc |-> SubSeq(bytes, 1, DescLen(bytes[1])),
          rest |-> SubSeq(bytes, DescLen(bytes[1]) + 1, Len(bytes))]
    ELSE [ok |-> FALSE, desc |-> <<>>, rest |-> <<>>]

RECURSIVE DecodeAll(_)
\* The read loop of sweep.rs:102-112: stop at end of data, else read one
\* descriptor; ok is FALSE where the unwrap of the read panics.
DecodeAll(bytes) ==
    IF bytes = <<>>
    THEN [ok |-> TRUE, descs |-> <<>>]
    ELSE LET r == ReadDescriptor(bytes)
         IN  IF ~r.ok
             THEN [ok |-> FALSE, descs |-> <<>>]
             ELSE LET tl == DecodeAll(r.rest)
                  IN  [ok |-> tl.ok, descs |-> <<r.desc>> \o tl.descs]

\* As Vec<u8>::encode would write it: a two-byte length, then the bytes.
WithoutLengthEncode_Prefixed(bytes) ==
    <<Len(bytes) \div 256, Len(bytes) % 256>> \o bytes

\* WithoutLength(&outputs).encode(): every byte written, no length prefix.
WithoutLengthEncode(bytes) == [i \in 1..Len(bytes) |-> bytes[i]]

\* ------------------------------------------------------------------ names
\* A key made by hex_str(&keys_manager.get_secure_random_bytes()): 32 random
\* bytes in hexadecimal, 64 characters, taken to be fresh.
HexKey(id) == [len |-> NameLen, hex |-> TRUE, id |-> id]

\* Names found in intake when the model starts: two keys, the name "tmp_abc"
\* and a name of 64 characters that are not hexadecimal digits.
HexA == HexKey(1)

HexB == HexKey(2)

TmpAbc == [len |-> 7, hex |-> FALSE, id |-> 3]

Zz64 == [len |-> NameLen, hex |-> FALSE, id |-> 4]

InitNames == {HexA, HexB, TmpAbc, Zz64}

\* The intakes the model starts from: none; one key holding a 40-byte and a
\* 55-byte descriptor; one key holding nothing; two keys holding one
\* descriptor each; two keys holding two descriptors and none; "tmp_abc"
\* alone; the 64-character non-hexadecimal name alone; a key and "tmp_abc".
InitIntakes ==
    { EmptyDir,
      (HexA :> (Encode(1, 1) \o Encode(2, 11))),
      (HexA :> <<>>),
      (HexA :> Encode(1, 1)) @@ (HexB :> Encode(2, 2)),
      (HexA :> (Encode(1, 1) \o Encode(2, 11))) @@ (HexB :> <<>>),
      (TmpAbc :> Encode(1, 3)),
      (Zz64 :> Encode(1, 4)),
      (HexA :> Encode(1, 1)) @@ (TmpAbc :> Encode(1, 3)) }

DepositKey(k) == HexKey(20 + k)

BatchKeyPool == {HexKey(30 + j) : j \in 1..(MaxDeposits + MaxCrashes + 2)}

\* The key of a new claim batch: one no file of the claim queue bears.
FreshBatchKey ==
    CHOOSE k \in BatchKeyPool :
        /\ k \notin DOMAIN spendables
        /\ \A m \in BatchKeyPool : m \notin DOMAIN spendables => k.id <= m.id

\* ------------------------------------------------------------- accounting
RECURSIVE SumLen(_, _)
SumLen(f, S) ==
    IF S = {} THEN 0
    ELSE LET n == CHOOSE m \in S : TRUE
         IN  Len(f[n]) + SumLen(f, S \ {n})

DirBytes(f) == SumLen(f, DOMAIN f)

TotalBytes == DirBytes(pending) + DirBytes(processing) + DirBytes(spendables)

FramesOf(bytes) ==
    LET d == DecodeAll(bytes) IN {d.descs[i] : i \in 1..Len(d.descs)}

DirFrames(f) == UNION {FramesOf(f[n]) : n \in DOMAIN f}

\* How many files of directory f hold the descriptor `frame`.
HeldIn(f, frame) == Cardinality({n \in DOMAIN f : frame \in FramesOf(f[n])})

Held(frame) ==
    HeldIn(pending, frame) + HeldIn(processing, frame) + HeldIn(spendables, frame)

RECURSIVE SumFrames(_)
SumFrames(S) ==
    IF S = {} THEN 0
    ELSE LET x == CHOOSE y \in S : TRUE IN Len(x) + SumFrames(S \ {x})

DepositedBytes == SumFrames(deposited)

\* ------------------------------------------------------------------ chain
\* bitcoin::LockTime::from_height accepts a height below this threshold.
LOCK_TIME_THRESHOLD == 500000000

\* The heights the model takes the best block to have (a u32, sweep.rs:124):
\* the first ones, the ones around the threshold, and the largest number the
\* model checker represents, 2^31 - 1, which stands for the heights from it to
\* 2^32 - 1 (from_height treats them alike).
Heights ==
    {0, 1, LOCK_TIME_THRESHOLD - 1, LOCK_TIME_THRESHOLD,
     LOCK_TIME_THRESHOLD + 1, 2147483647}

\* The height of the best block where the model does not vary it.
HeightAtStart == 1

\* ------------------------------------------------------------------- init
InitRest ==
    /\ pending \in InitIntakes
    /\ dirs = IF DOMAIN pending = {} THEN {} ELSE {"pending"}
    /\ processing = EmptyDir
    /\ spendables = EmptyDir
    /\ pc = "start"
    /\ dirIter = {}
    /\ outputs = <<>>
    /\ spIter = {}
    /\ cur = {}
    /\ descs = <<>>
    /\ txs = 0
    /\ txi = 0
    /\ walletLock = "free"
    /\ yuvClient \in BOOLEAN
    /\ depCount = 0
    /\ crashes = 0
    /\ ticksDone = 0
    /\ intake0 = pending
    /\ deposited = DirFrames(pending)
    /\ swept = {}
    /\ signedLog = <<>>
    /\ rejectLog = <<>>
    /\ proofLog = <<>>
    /\ bcastLog = <<>>
    /\ outcomes = {}
    /\ panicAt = ""
    /\ sinceKeyErr = 0
    /\ scanRes = "none"
    /\ fundPc = "idle"
    /\ now = 0
    /\ deadline = 0
    /\ tickStarts = <<>>
    /\ proofTasks = {}
    /\ proofSent = {}
    /\ locktime = {}
    /\ evPc = "idle"
    /\ evAll = <<>>
    /\ evLeft = <<>>
    /\ evWritten = EmptyDir
    /\ verdict = ""

\* The state after construction: the task spawned, nothing in flight.
Init ==
    /\ InitRest
    /\ height = HeightAtStart

\* --------------------------------------------------------------- the task
\* A panic (an unwrap of an Err or of a None) ends the spawned task; the
\* guard of the wallet is dropped as the stack unwinds.
Panic(at) ==
    /\ pc' = "panicked"
    /\ panicAt' = at
    /\ walletLock' = IF walletLock = "sweep" THEN "free" ELSE walletLock

Alive == pc # "panicked"

\* No test of the length of the name: every file of intake is moved.
Conforming_AnyName(n) == n.len > 0

\* sweep.rs:67: the test the relocation makes on a file name.
Conforming(n) == n.len = NameLen

\* The sequences that list every element of S once: the orders in which
\* read_dir may yield the files of a directory.
Orders(S) ==
    {s \in [1..Cardinality(S) -> S] : \A i, j \in DOMAIN s : s[i] = s[j] => i = j}

\* `outputs` assigned rather than appended to: only the last file read stays.
ConcatFiles_Last(f, order) ==
    IF order = <<>> THEN <<>> ELSE f[order[Len(order)]]

RECURSIVE ConcatFiles(_, _)
ConcatFiles(f, order) ==
    IF order = <<>> THEN <<>>
    ELSE f[Head(order)] \o ConcatFiles(f, Tail(order))

ResetLogs ==
    /\ signedLog' = <<>>
    /\ rejectLog' = <<>>
    /\ proofLog' = <<>>
    /\ bcastLog' = <<>>
    /\ outcomes' = {}

\* A tick that fires while the claim queue of the previous one is still being
\* swept (a cycle spawned per tick rather than awaited in the loop).
TickScanOk_Overlapping ==
    /\ pc \in {"start", "wait", "batch"}
    /\ "pending" \in dirs
    /\ pc' = "relocate"
    /\ dirIter' = DOMAIN pending
    /\ ResetLogs
    /\ UNCHANGED <<fsVars, outputs, spIter, cur, descs, txs, txi, walletLock,
                   envVars, ticksDone, deposited, swept, panicAt, sinceKeyErr>>
    /\ scanRes' = IF DOMAIN pending = {} THEN "empty" ELSE "ok"
    /\ UNCHANGED <<fundPc, tickVars, extVars>>

\* An intake found empty ends the consolidation at once: what an interrupted
\* consolidation left in staging is not read.
TickScanOkStep_NoOpOnEmpty ==
    /\ pc \in {"start", "wait"}
    /\ "pending" \in dirs
    /\ pc' = IF DOMAIN pending = {} THEN "sweep_scan" ELSE "relocate"
    /\ dirIter' = DOMAIN pending
    /\ ResetLogs
    /\ UNCHANGED <<fsVars, outputs, spIter, cur, descs, txs, txi, walletLock,
                   envVars, ticksDone, deposited, swept, panicAt, sinceKeyErr>>
    /\ scanRes' = IF DOMAIN pending = {} THEN "empty" ELSE "ok"
    /\ UNCHANGED fundPc

\* sweep.rs:60: read_dir of the intake succeeds.
TickScanOkStep ==
    /\ pc \in {"start", "wait"}
    /\ "pending" \in dirs
    /\ pc' = "relocate"
    /\ dirIter' = DOMAIN pending
    /\ ResetLogs
    /\ UNCHANGED <<fsVars, outputs, spIter, cur, descs, txs, txi, walletLock,
                   envVars, ticksDone, deposited, swept, panicAt, sinceKeyErr>>
    /\ scanRes' = IF DOMAIN pending = {} THEN "empty" ELSE "ok"
    /\ UNCHANGED fundPc

\* sweep.rs:59-60: the interval fires and read_dir of the intake succeeds.
TickScanOk ==
    /\ TickScanOkStep
    /\ UNCHANGED <<tickVars, extVars>>

\* A failed read_dir of the intake that ends the iteration: the loop goes
\* back to the await without its sweep phase.
TickScanErrStep_AbortsTick ==
    /\ pc \in {"start", "wait"}
    /\ pc' = "wait"
    /\ ResetLogs
    /\ UNCHANGED <<fsVars, localVars, walletLock, envVars, ticksDone,
                   deposited, swept, panicAt, sinceKeyErr>>
    /\ scanRes' = "err"
    /\ UNCHANGED fundPc

\* sweep.rs:60: read_dir of the intake fails (the directory is missing, or an
\* I/O error): the consolidation block is skipped.
TickScanErrStep ==
    /\ pc \in {"start", "wait"}
    /\ pc' = "sweep_scan"
    /\ ResetLogs
    /\ UNCHANGED <<fsVars, localVars, walletLock, envVars, ticksDone,
                   deposited, swept, panicAt, sinceKeyErr>>
    /\ scanRes' = "err"
    /\ UNCHANGED fundPc

\* sweep.rs:59-60: the interval fires and read_dir of the intake fails.
TickScanErr ==
    /\ TickScanErrStep
    /\ UNCHANGED <<tickVars, extVars>>

\* The file copied into staging and left in intake.
RelocateMove_Copy ==
    /\ pc = "relocate"
    /\ \E n \in dirIter :
        /\ Conforming(n)
        /\ dirIter' = dirIter \ {n}
        /\ dirs' = dirs \cup {"processing"}
        /\ pending' = pending
        /\ processing' = Put(processing, n, pending[n])
    /\ UNCHANGED <<spendables, pc, outputs, spIter, cur, descs, txs, txi,
                   walletLock, envVars, ticksDone, deposited, swept, logVars,
                   panicAt, sinceKeyErr>>
    /\ UNCHANGED <<scanRes, fundPc, tickVars, extVars>>

\* The staging directory made anew for the file moved: what an earlier
\* consolidation left in it is gone.
RelocateMove_Overwrites ==
    /\ pc = "relocate"
    /\ \E n \in dirIter :
        /\ Conforming(n)
        /\ dirIter' = dirIter \ {n}
        /\ dirs' = dirs \cup {"processing"}
        /\ pending' = Remove(pending, n)
        /\ processing' = (n :> pending[n])
    /\ UNCHANGED <<spendables, pc, outputs, spIter, cur, descs, txs, txi,
                   walletLock, envVars, ticksDone, deposited, swept, logVars,
                   panicAt, sinceKeyErr>>
    /\ UNCHANGED <<scanRes, fundPc, tickVars, extVars>>

\* sweep.rs:63-74, one iteration on a file whose name is 64 bytes long:
\* create_dir_all of staging, then rename into it.
RelocateMove ==
    /\ pc = "relocate"
    /\ \E n \in dirIter :
        /\ Conforming(n)
        /\ dirIter' = dirIter \ {n}
        /\ dirs' = dirs \cup {"processing"}
        /\ pending' = Remove(pending, n)
        /\ processing' = Put(processing, n, pending[n])
    /\ UNCHANGED <<spendables, pc, outputs, spIter, cur, descs, txs, txi,
                   walletLock, envVars, ticksDone, deposited, swept, logVars,
                   panicAt, sinceKeyErr>>
    /\ UNCHANGED <<scanRes, fundPc, tickVars, extVars>>

\* sweep.rs:67: a file whose name is not 64 bytes long is passed over.
RelocateSkip ==
    /\ pc = "relocate"
    /\ \E n \in dirIter :
        /\ ~Conforming(n)
        /\ dirIter' = dirIter \ {n}
    /\ UNCHANGED <<fsVars, pc, outputs, spIter, cur, descs, txs, txi,
                   walletLock, envVars, ticksDone, deposited, swept, logVars,
                   panicAt, sinceKeyErr>>
    /\ UNCHANGED <<scanRes, fundPc, tickVars, extVars>>

\* sweep.rs:64,68,72: the unwrap of a failed directory entry, create_dir_all
\* or rename panics; create_dir_all may have made the staging directory.
RelocateFail ==
    /\ pc = "relocate"
    /\ dirIter # {}
    /\ \E made \in BOOLEAN :
        dirs' = IF made /\ \E n \in dirIter : Conforming(n)
                THEN dirs \cup {"processing"} ELSE dirs
    /\ Panic("relocate")
    /\ UNCHANGED <<pending, processing, spendables, localVars, envVars,
                   ticksDone, deposited, swept, logVars, sinceKeyErr>>
    /\ UNCHANGED <<scanRes, fundPc, tickVars, extVars>>

\* sweep.rs:63: the intake iterator is exhausted.
RelocateDone ==
    /\ pc = "relocate"
    /\ dirIter = {}
    /\ pc' = "concat"
    /\ UNCHANGED <<fsVars, localVars, walletLock, envVars, ticksDone,
                   deposited, swept, logVars, panicAt,
                   sinceKeyErr>>
    /\ UNCHANGED <<scanRes, fundPc, tickVars, extVars>>

\* sweep.rs:77-82: everything staged is read and appended to `outputs`, in
\* the order read_dir yields it; nothing is read when read_dir fails.
ConcatRead ==
    /\ pc = "concat"
    /\ \/ /\ "processing" \in dirs
          /\ \E order \in Orders(DOMAIN processing) :
                outputs' = ConcatFiles(processing, order)
       \/ outputs' = <<>>
    /\ pc' = "commit"
    /\ UNCHANGED <<fsVars, dirIter, spIter, cur, descs, txs, txi, walletLock,
                   envVars, ticksDone, deposited, swept, logVars, panicAt,
                   sinceKeyErr>>
    /\ UNCHANGED <<scanRes, fundPc, tickVars, extVars>>

\* sweep.rs:80: the unwrap of a failed entry or of a failed fs::read panics.
ConcatFail ==
    /\ pc = "concat"
    /\ "processing" \in dirs
    /\ DOMAIN processing # {}
    /\ Panic("concat")
    /\ UNCHANGED <<fsVars, localVars, envVars, ticksDone, deposited, swept,
                   logVars, sinceKeyErr>>
    /\ UNCHANGED <<scanRes, fundPc, tickVars, extVars>>

\* sweep.rs:83: `outputs` is empty: nothing is written and staging is kept.
CommitSkip ==
    /\ pc = "commit"
    /\ outputs = <<>>
    /\ pc' = "sweep_scan"
    /\ UNCHANGED <<fsVars, localVars, walletLock, envVars, ticksDone,
                   deposited, swept, logVars, panicAt,
                   sinceKeyErr>>
    /\ UNCHANGED <<scanRes, fundPc, tickVars, extVars>>

\* The claim batch written under one fixed key: a batch the claim queue still
\* holds is overwritten.
CommitWrite_FixedKey ==
    /\ pc = "commit"
    /\ outputs # <<>>
    /\ spendables' = Put(spendables, HexKey(31), WithoutLengthEncode(outputs))
    /\ dirs' = dirs \cup {"spendables"}
    /\ pc' = "clear"
    /\ UNCHANGED <<pending, processing, localVars, walletLock, envVars,
                   ticksDone, deposited, swept, logVars, panicAt,
                   sinceKeyErr>>
    /\ UNCHANGED <<scanRes, fundPc, tickVars, extVars>>

\* sweep.rs:84-87: the claim batch is written under a fresh key.
CommitWrite ==
    /\ pc = "commit"
    /\ outputs # <<>>
    /\ spendables' = Put(spendables, FreshBatchKey, WithoutLengthEncode(outputs))
    /\ dirs' = dirs \cup {"spendables"}
    /\ pc' = "clear"
    /\ UNCHANGED <<pending, processing, localVars, walletLock, envVars,
                   ticksDone, deposited, swept, logVars, panicAt,
                   sinceKeyErr>>
    /\ UNCHANGED <<scanRes, fundPc, tickVars, extVars>>

\* sweep.rs:87: the unwrap of a failed persister.write panics.
CommitWriteFail ==
    /\ pc = "commit"
    /\ outputs # <<>>
    /\ Panic("write")
    /\ UNCHANGED <<fsVars, localVars, envVars, ticksDone, deposited, swept,
                   logVars, sinceKeyErr>>
    /\ UNCHANGED <<scanRes, fundPc, tickVars, extVars>>

\* The staging directory left as it is after the write of the claim batch.
ClearStaging_KeepsFiles ==
    /\ pc = "clear"
    /\ pc' = "sweep_scan"
    /\ outputs' = <<>>
    /\ UNCHANGED <<fsVars, dirIter, spIter, cur, descs, txs, txi,
                   walletLock, envVars, ticksDone, deposited, swept, logVars,
                   panicAt, sinceKeyErr>>
    /\ UNCHANGED <<scanRes, fundPc, tickVars, extVars>>

\* sweep.rs:88: remove_dir_all of the staging directory.
ClearStaging ==
    /\ pc = "clear"
    /\ processing' = EmptyDir
    /\ dirs' = dirs \ {"processing"}
    /\ pc' = "sweep_scan"
    /\ outputs' = <<>>
    /\ UNCHANGED <<pending, spendables, dirIter, spIter, cur, descs, txs, txi,
                   walletLock, envVars, ticksDone, deposited, swept, logVars,
                   panicAt, sinceKeyErr>>
    /\ UNCHANGED <<scanRes, fundPc, tickVars, extVars>>

\* sweep.rs:88: the unwrap of a failed remove_dir_all panics.
ClearStagingFail ==
    /\ pc = "clear"
    /\ Panic("clear")
    /\ UNCHANGED <<fsVars, localVars, envVars, ticksDone, deposited, swept,
                   logVars, sinceKeyErr>>
    /\ UNCHANGED <<scanRes, fundPc, tickVars, extVars>>

\* ---------------------------------------------------------- the sweep phase
Tx(batch, i) == [batch |-> batch, idx |-> i]

CurBatch == CHOOSE n \in cur : TRUE

TickEnd == IF ticksDone < MaxTicks THEN ticksDone + 1 ELSE ticksDone

\* The guard of the wallet kept from one iteration of the loop over the claim
\* queue to the next.
NextBatch_KeepsWallet ==
    /\ pc' = "batch"
    /\ walletLock' = walletLock
    /\ cur' = {}
    /\ descs' = <<>>
    /\ txs' = 0
    /\ txi' = 0

\* The end of one iteration of the loop over the claim queue: the guard of the
\* wallet goes out of scope (sweep.rs:178) and the next file is taken.
NextBatch ==
    /\ pc' = "batch"
    /\ walletLock' = "free"
    /\ cur' = {}
    /\ descs' = <<>>
    /\ txs' = 0
    /\ txi' = 0

\* sweep.rs:98: read_dir of the claim queue succeeds.
SweepScanOk ==
    /\ pc = "sweep_scan"
    /\ "spendables" \in dirs
    /\ spIter' = DOMAIN spendables
    /\ pc' = "batch"
    /\ UNCHANGED <<fsVars, dirIter, outputs, cur, descs, txs, txi, walletLock,
                   envVars, ticksDone, deposited, swept, logVars, panicAt,
                   sinceKeyErr>>
    /\ UNCHANGED <<scanRes, fundPc, tickVars, extVars>>

\* sweep.rs:98: read_dir of the claim queue fails (no directory, or an I/O
\* error): the sweep block is skipped and the loop awaits the next tick.
SweepScanErr ==
    /\ pc = "sweep_scan"
    /\ pc' = "wait"
    /\ ticksDone' = TickEnd
    /\ UNCHANGED <<fsVars, localVars, walletLock, envVars, deposited, swept,
                   logVars, panicAt,
                   sinceKeyErr>>
    /\ scanRes' = "none"
    /\ UNCHANGED <<fundPc, tickVars, extVars>>

\* sweep.rs:100-112: the next file is opened and decoded to its descriptors.
BatchOpen ==
    /\ pc = "batch"
    /\ \E n \in spIter :
        /\ DecodeAll(spendables[n]).ok
        /\ spIter' = spIter \ {n}
        /\ cur' = {n}
        /\ descs' = DecodeAll(spendables[n]).descs
    /\ pc' = "lock"
    /\ ResetLogs
    /\ UNCHANGED <<fsVars, dirIter, outputs, txs, txi, walletLock, envVars,
                   ticksDone, deposited, swept, panicAt, sinceKeyErr>>
    /\ UNCHANGED <<scanRes, fundPc, tickVars, extVars>>

\* sweep.rs:101,106,109,111: the unwrap of a failed directory entry, open,
\* seek or read of a descriptor panics.
BatchOpenFail ==
    /\ pc = "batch"
    /\ spIter # {}
    /\ Panic("decode")
    /\ UNCHANGED <<fsVars, localVars, envVars, ticksDone, deposited, swept,
                   logVars, sinceKeyErr>>
    /\ UNCHANGED <<scanRes, fundPc, tickVars, extVars>>

\* The wallet taken without awaiting the mutex.
BatchLock_NoWait ==
    /\ pc = "lock"
    /\ walletLock' = "sweep"
    /\ pc' = "key"
    /\ UNCHANGED <<fsVars, localVars, envVars, ticksDone, deposited, swept,
                   logVars, panicAt,
                   sinceKeyErr>>
    /\ UNCHANGED <<scanRes, fundPc, tickVars, extVars>>

\* sweep.rs:114: wallet.lock().await.
BatchLock ==
    /\ pc = "lock"
    /\ walletLock = "free"
    /\ walletLock' = "sweep"
    /\ pc' = "key"
    /\ UNCHANGED <<fsVars, localVars, envVars, ticksDone, deposited, swept,
                   logVars, panicAt,
                   sinceKeyErr>>
    /\ UNCHANGED <<scanRes, fundPc, tickVars, extVars>>

\* sweep.rs:115: get_change_yuv_pubkey returns Ok.
KeyOkStep ==
    /\ pc = "key"
    /\ pc' = "sign"
    /\ UNCHANGED <<fsVars, localVars, walletLock, envVars, ticksDone,
                   deposited, swept, logVars, panicAt,
                   sinceKeyErr>>
    /\ UNCHANGED <<scanRes, fundPc, tickVars, netVars, evVars, verdict>>

\* sweep.rs:115-126 where the height of the best block is not varied.
KeyOk ==
    /\ KeyOkStep
    /\ UNCHANGED chainVars

\* The Err of get_change_yuv_pubkey unwrapped.
KeyErr_Panics ==
    /\ pc = "key"
    /\ Panic("key")
    /\ outcomes' = {"key_err"}
    /\ sinceKeyErr' = IF sinceKeyErr = 0 THEN 1 ELSE sinceKeyErr
    /\ UNCHANGED <<fsVars, localVars, envVars, ticksDone, deposited, swept,
                   signedLog, rejectLog, proofLog, bcastLog>>
    /\ UNCHANGED <<scanRes, fundPc, tickVars, extVars>>

\* sweep.rs:115-118: get_change_yuv_pubkey returns Err: the error is logged
\* and the loop continues with the next file.  (The Wallet of wallet.rs:160-162
\* returns Ok in every case; the branch is taken with a WalletSource whose
\* key resolution fails.)
KeyErr ==
    /\ pc = "key"
    /\ NextBatch
    /\ outcomes' = {"key_err"}
    /\ sinceKeyErr' = IF sinceKeyErr = 0 THEN 1 ELSE sinceKeyErr
    /\ UNCHANGED <<fsVars, dirIter, outputs, spIter, envVars, ticksDone,
                   deposited, swept, signedLog, rejectLog, proofLog, bcastLog,
                   panicAt>>
    /\ UNCHANGED <<scanRes, fundPc, tickVars, extVars>>

\* The guard of the wallet dropped as soon as the transactions are signed.
SignOk_ReleasesWallet ==
    /\ pc = "sign"
    /\ \E n \in 1..MaxTxs :
        /\ txs' = n
        /\ signedLog' = [i \in 1..n |-> Tx(CurBatch, i)]
    /\ txi' = 1
    /\ pc' = "tx"
    /\ walletLock' = "free"
    /\ UNCHANGED <<fsVars, dirIter, outputs, spIter, cur, descs,
                   envVars, ticksDone, deposited, swept, rejectLog, proofLog,
                   bcastLog, outcomes, panicAt, sinceKeyErr>>
    /\ UNCHANGED <<scanRes, fundPc, tickVars, extVars>>

\* sweep.rs:128-136: spend_yuv_spendable_outputs returns the transactions.
SignOk ==
    /\ pc = "sign"
    /\ \E n \in 1..MaxTxs :
        /\ txs' = n
        /\ signedLog' = [i \in 1..n |-> Tx(CurBatch, i)]
    /\ txi' = 1
    /\ pc' = "tx"
    /\ UNCHANGED <<fsVars, dirIter, outputs, spIter, cur, descs, walletLock,
                   envVars, ticksDone, deposited, swept, rejectLog, proofLog,
                   bcastLog, outcomes, panicAt, sinceKeyErr>>
    /\ UNCHANGED <<scanRes, fundPc, tickVars, extVars>>

\* A signing failure that leaves the loop over the claim queue: the files
\* still to come are passed over.
SignErr_SkipsRest ==
    /\ pc = "sign"
    /\ NextBatch
    /\ spIter' = {}
    /\ outcomes' = {"sign_err"}
    /\ UNCHANGED <<fsVars, dirIter, outputs, envVars, ticksDone,
                   deposited, swept, signedLog, rejectLog, proofLog, bcastLog,
                   panicAt, sinceKeyErr>>
    /\ UNCHANGED <<scanRes, fundPc, tickVars, extVars>>

\* sweep.rs:170-176: spend_yuv_spendable_outputs returns Err, which is logged.
SignErr ==
    /\ pc = "sign"
    /\ NextBatch
    /\ outcomes' = {"sign_err"}
    /\ UNCHANGED <<fsVars, dirIter, outputs, spIter, envVars, ticksDone,
                   deposited, swept, signedLog, rejectLog, proofLog, bcastLog,
                   panicAt, sinceKeyErr>>
    /\ UNCHANGED <<scanRes, fundPc, tickVars, extVars>>

\* sweep.rs:140-142: yuv_client is None and the unwrap panics.
EmulateNoClient ==
    /\ pc = "tx"
    /\ txi <= txs
    /\ ~yuvClient
    /\ Panic("no_yuv_client")
    /\ UNCHANGED <<fsVars, localVars, envVars, ticksDone, deposited, swept,
                   logVars, sinceKeyErr>>
    /\ UNCHANGED <<scanRes, fundPc, tickVars, extVars>>

\* A dry run whose call failed counted as a rejection: only the answer Valid
\* gives None.
EmulateResult_ErrRejects(answer) ==
    IF answer = "valid" THEN "none" ELSE "some_reason"

\* yuv_client.rs:51-70: what emulate_yuv_transaction returns for each answer
\* of the node: a reason when the answer is Invalid, None otherwise.
EmulateResult(answer) == IF answer = "invalid" THEN "some_reason" ELSE "none"

Answers == {"valid", "invalid", "rpc_error"}

\* A rejection that leaves the loop over the transactions (break).
EmulateReject_Break ==
    /\ pc = "tx"
    /\ txi <= txs
    /\ yuvClient
    /\ \E a \in Answers : EmulateResult(a) # "none"
    /\ rejectLog' = Append(rejectLog, Tx(CurBatch, txi))
    /\ txi' = txs + 1
    /\ UNCHANGED <<fsVars, pc, dirIter, outputs, spIter, cur, descs, txs,
                   walletLock, envVars, ticksDone, deposited, swept, signedLog,
                   proofLog, bcastLog, outcomes, panicAt, sinceKeyErr>>
    /\ UNCHANGED <<scanRes, fundPc, tickVars, extVars>>

\* A rejection that is logged and not followed by `continue`: the transaction
\* goes on to the publishing of its proof.
EmulateReject_FallsThrough ==
    /\ pc = "tx"
    /\ txi <= txs
    /\ yuvClient
    /\ \E a \in Answers : EmulateResult(a) # "none"
    /\ rejectLog' = Append(rejectLog, Tx(CurBatch, txi))
    /\ pc' = "publish"
    /\ UNCHANGED <<fsVars, dirIter, outputs, spIter, cur, descs, txs, txi,
                   walletLock, envVars, ticksDone, deposited, swept, signedLog,
                   proofLog, bcastLog, outcomes, panicAt, sinceKeyErr>>
    /\ UNCHANGED <<scanRes, fundPc, tickVars, extVars>>

\* sweep.rs:140-154: the node answered `a` to the dry run and
\* emulate_yuv_transaction gave a reason: the transaction is logged and the
\* loop continues with the next transaction.
EmulateRejectStep(a) ==
    /\ pc = "tx"
    /\ txi <= txs
    /\ yuvClient
    /\ EmulateResult(a) # "none"
    /\ rejectLog' = Append(rejectLog, Tx(CurBatch, txi))
    /\ txi' = txi + 1
    /\ UNCHANGED <<fsVars, pc, dirIter, outputs, spIter, cur, descs, txs,
                   walletLock, envVars, ticksDone, deposited, swept, signedLog,
                   proofLog, bcastLog, outcomes, panicAt,
                   sinceKeyErr>>
    /\ UNCHANGED <<scanRes, fundPc, tickVars, netVars, chainVars, evVars>>

\* sweep.rs:146-154 where the answer of the node is not followed.
EmulateReject ==
    /\ \E a \in Answers : EmulateRejectStep(a)
    /\ UNCHANGED verdict

\* An accepted transaction handed to the broadcaster of the base chain with
\* no call of broadcast_transactions_proofs before it.
EmulateAccept_SkipsProof ==
    /\ pc = "tx"
    /\ txi <= txs
    /\ yuvClient
    /\ \E a \in Answers : EmulateResult(a) = "none"
    /\ pc' = "broadcast"
    /\ UNCHANGED <<fsVars, localVars, walletLock, envVars, ticksDone,
                   deposited, swept, logVars, panicAt,
                   sinceKeyErr>>
    /\ UNCHANGED <<scanRes, fundPc, tickVars, extVars>>

\* sweep.rs:140-146: the node answered `a` to the dry run and
\* emulate_yuv_transaction gave no reason.
EmulateAcceptStep(a) ==
    /\ pc = "tx"
    /\ txi <= txs
    /\ yuvClient
    /\ EmulateResult(a) = "none"
    /\ pc' = "publish"
    /\ UNCHANGED <<fsVars, localVars, walletLock, envVars, ticksDone,
                   deposited, swept, logVars, panicAt,
                   sinceKeyErr>>
    /\ UNCHANGED <<scanRes, fundPc, tickVars, netVars, chainVars, evVars>>

\* sweep.rs:140-146 where the answer of the node is not followed.
EmulateAccept ==
    /\ \E a \in Answers : EmulateAcceptStep(a)
    /\ UNCHANGED verdict

\* sweep.rs:156-159: broadcast_transactions_proofs is called and returns.
PublishStep ==
    /\ pc = "publish"
    /\ proofLog' = Append(proofLog, Tx(CurBatch, txi))
    /\ pc' = "broadcast"
    /\ UNCHANGED <<fsVars, localVars, walletLock, envVars, ticksDone,
                   deposited, swept, signedLog, rejectLog, bcastLog, outcomes,
                   panicAt, sinceKeyErr>>
    /\ UNCHANGED <<scanRes, fundPc, tickVars, chainVars, evVars, verdict>>

\* sweep.rs:156-159 where the task the call spawns is not followed.
Publish ==
    /\ PublishStep
    /\ UNCHANGED netVars

\* sweep.rs:161-167: bitcoind_client.broadcast_transactions, then the next
\* transaction.
Broadcast ==
    /\ pc = "broadcast"
    /\ bcastLog' = Append(bcastLog, Tx(CurBatch, txi))
    /\ txi' = txi + 1
    /\ pc' = "tx"
    /\ UNCHANGED <<fsVars, dirIter, outputs, spIter, cur, descs, txs,
                   walletLock, envVars, ticksDone, deposited, swept, signedLog,
                   rejectLog, proofLog, outcomes, panicAt, sinceKeyErr>>
    /\ UNCHANGED <<scanRes, fundPc, tickVars, extVars>>

\* sweep.rs:139,178: the transactions of the batch are exhausted.
BatchEnd ==
    /\ pc = "tx"
    /\ txi > txs
    /\ NextBatch
    /\ UNCHANGED <<fsVars, dirIter, outputs, spIter, envVars, ticksDone,
                   deposited, swept, logVars, panicAt,
                   sinceKeyErr>>
    /\ UNCHANGED <<scanRes, fundPc, tickVars, extVars>>

\* sweep.rs:99: the claim-queue iterator is exhausted.
BatchesDone ==
    /\ pc = "batch"
    /\ spIter = {}
    /\ pc' = "cleanup"
    /\ UNCHANGED <<fsVars, localVars, walletLock, envVars, ticksDone,
                   deposited, swept, logVars, panicAt,
                   sinceKeyErr>>
    /\ UNCHANGED <<scanRes, fundPc, tickVars, extVars>>

\* A cleanup that keeps the claim queue when nothing of the latest batch was
\* broadcast.
CleanupLeaves_KeepUnbroadcast ==
    IF bcastLog = <<>> THEN spendables ELSE EmptyDir

\* What remove_dir_all leaves of the claim queue.
CleanupLeaves == EmptyDir

\* sweep.rs:180: remove_dir_all of the claim queue; the iteration is over.
Cleanup ==
    /\ pc = "cleanup"
    /\ spendables' = CleanupLeaves
    /\ dirs' = dirs \ {"spendables"}
    /\ swept' = swept \cup DirFrames(spendables)
    /\ pc' = "wait"
    /\ ticksDone' = TickEnd
    /\ UNCHANGED <<pending, processing, localVars, walletLock, envVars,
                   deposited, logVars, panicAt,
                   sinceKeyErr>>
    /\ scanRes' = "none"
    /\ UNCHANGED <<fundPc, tickVars, extVars>>

\* sweep.rs:180: the unwrap of a failed remove_dir_all panics.
CleanupFail ==
    /\ pc = "cleanup"
    /\ Panic("cleanup")
    /\ UNCHANGED <<fsVars, localVars, envVars, ticksDone, deposited, swept,
                   logVars, sinceKeyErr>>
    /\ UNCHANGED <<scanRes, fundPc, tickVars, extVars>>

\* ----------------------------------------------------------- environment
\* main.rs:531-536, one iteration: a descriptor of a SpendableOutputs event is
\* written to intake under a fresh key.  An intake iterator that is open may
\* or may not yield the new file.
Deposit ==
    /\ depCount < MaxDeposits
    /\ depCount' = depCount + 1
    /\ \E tag \in Tags :
        /\ pending' = Put(pending, DepositKey(depCount'), Encode(tag, 20 + depCount'))
        /\ deposited' = deposited \cup {Encode(tag, 20 + depCount')}
    /\ dirs' = dirs \cup {"pending"}
    /\ sinceKeyErr' = IF sinceKeyErr = 1 THEN 2 ELSE sinceKeyErr
    /\ \E seen \in BOOLEAN :
        dirIter' = IF seen /\ pc = "relocate"
                   THEN dirIter \cup {DepositKey(depCount')} ELSE dirIter
    /\ UNCHANGED <<processing, spendables, pc, outputs, spIter, cur, descs,
                   txs, txi, walletLock, yuvClient, crashes, ticksDone,
                   intake0, swept, logVars, panicAt>>
    /\ UNCHANGED <<scanRes, fundPc, tickVars, extVars>>

\* The process is killed and started again: the files stay, everything in
\* memory is lost, periodic_sweep is spawned anew (main.rs:1210).
Crash ==
    /\ crashes < MaxCrashes
    /\ pc # "start"
    /\ crashes' = crashes + 1
    /\ pc' = "start"
    /\ dirIter' = {}
    /\ outputs' = <<>>
    /\ spIter' = {}
    /\ cur' = {}
    /\ descs' = <<>>
    /\ txs' = 0
    /\ txi' = 0
    /\ walletLock' = "free"
    /\ ticksDone' = 0
    /\ panicAt' = ""
    /\ sinceKeyErr' = 0
    /\ ResetLogs
    /\ UNCHANGED <<fsVars, yuvClient, depCount, intake0, deposited, swept>>
    /\ scanRes' = "none"
    /\ fundPc' = "idle"
    /\ UNCHANGED <<tickVars, extVars>>

Next ==
    \/ TickScanOk
    \/ TickScanErr
    \/ RelocateMove
    \/ RelocateSkip
    \/ RelocateFail
    \/ RelocateDone
    \/ ConcatRead
    \/ ConcatFail
    \/ CommitSkip
    \/ CommitWrite
    \/ CommitWriteFail
    \/ ClearStaging
    \/ ClearStagingFail
    \/ SweepScanOk
    \/ SweepScanErr
    \/ BatchOpen
    \/ BatchOpenFail
    \/ BatchLock
    \/ KeyOk
    \/ KeyErr
    \/ SignOk
    \/ SignErr
    \/ EmulateNoClient
    \/ EmulateReject
    \/ EmulateAccept
    \/ Publish
    \/ Broadcast
    \/ BatchEnd
    \/ BatchesDone
    \/ Cleanup
    \/ CleanupFail
    \/ Deposit
    \/ Crash

Spec == Init /\ [][Next]_vars

\* ------------------------------------------- the task without I/O failures
\* sweep.rs:60: read_dir of the intake fails because the directory is not
\* there (nothing was ever deposited).
TickScanMissing ==
    /\ "pending" \notin dirs
    /\ TickScanErr

\* sweep.rs:78-82: read_dir of staging fails only when the directory is not
\* there, and every staged file is read.
ConcatReadAll ==
    /\ ConcatRead
    /\ "processing" \in dirs =>
          \E order \in Orders(DOMAIN processing) :
              outputs' = ConcatFiles(processing, order)

\* sweep.rs:98: read_dir of the claim queue fails because the directory is
\* not there.
SweepScanMissing ==
    /\ "spendables" \notin dirs
    /\ SweepScanErr

\* The steps of an iteration of the loop, past the scan of the intake, that
\* neither lock the wallet, nor read the height of the best block, nor make a
\* dry run, nor spawn a task, when no filesystem call fails.
CycleUnlocked ==
    \/ RelocateMove
    \/ RelocateSkip
    \/ RelocateDone
    \/ ConcatReadAll
    \/ CommitSkip
    \/ CommitWrite
    \/ ClearStaging
    \/ SweepScanOk
    \/ SweepScanMissing
    \/ BatchOpen
    \/ KeyErr
    \/ SignOk
    \/ SignErr
    \/ EmulateNoClient
    \/ Broadcast
    \/ BatchEnd
    \/ BatchesDone
    \/ Cleanup

\* The steps of an iteration of the loop, past the scan of the intake, that
\* neither read the height of the best block, nor make a dry run, nor spawn
\* a task, when no filesystem call fails.
CycleCore ==
    \/ CycleUnlocked
    \/ BatchLock

\* The steps of an iteration of the loop, past the scan of the intake, that
\* neither read the height of the best block nor spawn a task, when no
\* filesystem call fails.
CycleRest ==
    \/ CycleCore
    \/ EmulateReject
    \/ EmulateAccept

\* One step of an iteration of the loop, past the scan of the intake, when no
\* filesystem call fails.
CycleStep ==
    \/ CycleRest
    \/ KeyOk
    \/ Publish

\* One step of periodic_sweep when no filesystem call fails.
SweepStep ==
    \/ TickScanOk
    \/ TickScanMissing
    \/ CycleStep

NextNoFail ==
    \/ SweepStep
    \/ Deposit
    \/ Crash

\* The tokio runtime polls a spawned task that can make progress, and the
\* interval completes every tick it is awaited for: a step of the task that
\* stays possible is taken.
SpecFair == Init /\ [][NextNoFail]_vars /\ WF_vars(SweepStep)

\* ------------------------------------------------------- the interval
\* The deadline tokio::time::Interval sets after a tick whose deadline was
\* `timeout` completed at instant `t`: MissedTickBehavior::Burst keeps the
\* original schedule, MissedTickBehavior::Delay restarts it from `t`.
NextTimeout(behavior, timeout, t) ==
    IF behavior = "delay" /\ t > timeout THEN t + Period ELSE timeout + Period

\* The interval as main.rs:1148 sets another one.
MissedTickBehavior_Delay == "delay"

\* sweep.rs:56: tokio::time::interval(..) with no set_missed_tick_behavior
\* (main.rs:1148 sets Delay on another interval): the default, Burst.
MissedTickBehavior == "burst"

LastTwo(starts, t) ==
    IF Len(starts) < 2 THEN Append(starts, t) ELSE <<starts[2], t>>

\* sweep.rs:59: interval.tick().await completes once the deadline is reached
\* and sets the next deadline.  The first deadline is the instant the
\* interval was made.
IntervalTick ==
    /\ now >= deadline
    /\ deadline' = NextTimeout(MissedTickBehavior, deadline, now)
    /\ tickStarts' = LastTwo(tickStarts, now)
    /\ now' = now

TickScanOkTimed ==
    /\ TickScanOkStep
    /\ IntervalTick
    /\ UNCHANGED extVars

TickScanMissingTimed ==
    /\ "pending" \notin dirs
    /\ TickScanErrStep
    /\ IntervalTick
    /\ UNCHANGED extVars

\* The task is at the await and the deadline of the interval is reached: the
\* runtime wakes it.
TickDue == pc \in {"start", "wait"} /\ now >= deadline

\* A second passes while the task is in an iteration, whatever it is doing (no
\* timeout guards signing or broadcasting), or while it awaits a deadline
\* still to come.
Tock ==
    /\ now < MaxTime
    /\ ~TickDue
    /\ now' = now + 1
    /\ UNCHANGED <<fsVars, pc, localVars, walletLock, envVars, ticksDone,
                   deposited, swept, logVars, panicAt, sinceKeyErr, scanRes,
                   fundPc, deadline, tickStarts, extVars>>

NextTimed ==
    \/ TickScanOkTimed
    \/ TickScanMissingTimed
    \/ CycleStep
    \/ Tock

SpecTimed == Init /\ [][NextTimed]_vars

\* ------------------------------------------------- the funding handler
\* What the handler leaves unchanged: everything of the sweep.
FundingFrame ==
    UNCHANGED <<fsVars, pc, localVars, envVars, ticksDone, deposited, swept,
                logVars, panicAt, sinceKeyErr, scanRes, tickVars, extVars>>

\* main.rs:200-211: a FundingGenerationReady event reaches handle_ldk_events,
\* which awaits the mutex of the wallet.
FundingEvent ==
    /\ fundPc = "idle"
    /\ fundPc' = "lock"
    /\ UNCHANGED walletLock
    /\ FundingFrame

\* main.rs:211: wallet.lock().await completes.
FundingAcquire ==
    /\ fundPc = "lock"
    /\ walletLock = "free"
    /\ walletLock' = "funding"
    /\ fundPc' = "hold"
    /\ FundingFrame

\* main.rs:213-258: the funding transaction is built and handed to the
\* channel manager, or building it fails and the handler returns (or the
\* unwrap of main.rs:238 panics): the guard is dropped.
FundingRelease ==
    /\ fundPc = "hold"
    /\ walletLock' = "free"
    /\ fundPc' = "idle"
    /\ FundingFrame

NextFunding ==
    \/ TickScanOk
    \/ TickScanMissing
    \/ CycleStep
    \/ Deposit
    \/ Crash
    \/ FundingEvent
    \/ FundingAcquire
    \/ FundingRelease

SpecFunding == Init /\ [][NextFunding]_vars

\* ------------------------------------- a claim queue left by an earlier run
RECURSIVE Flatten(_)
\* The bytes of descriptors written one after the other with no separator.
Flatten(seq) ==
    IF seq = <<>> THEN <<>> ELSE Head(seq) \o Flatten(Tail(seq))

\* Descriptors of both lengths whose body bytes are also tag values.
QueueFrames == {Encode(t, i) : t \in Tags, i \in 1..2}

\* The sequences of one to MaxDescs different descriptors of F.
DescSeqs(F) ==
    UNION {Orders(S) : S \in {T \in SUBSET F : Cardinality(T) \in 1..MaxDescs}}

\* The process starts with one claim batch on disk, written by an earlier run
\* and not yet cleaned up: the concatenation of some descriptors.  Intake is
\* empty or holds the temporary file of a write the earlier run did not end.
InitQueue ==
    /\ pending \in {EmptyDir, (TmpAbc :> <<1>>)}
    /\ processing = EmptyDir
    /\ \E seq \in DescSeqs(QueueFrames) :
        /\ spendables = (HexKey(31) :> Flatten(seq))
        /\ deposited = {seq[i] : i \in DOMAIN seq}
    /\ dirs = {"pending", "spendables"}
    /\ pc = "start"
    /\ dirIter = {}
    /\ outputs = <<>>
    /\ spIter = {}
    /\ cur = {}
    /\ descs = <<>>
    /\ txs = 0
    /\ txi = 0
    /\ walletLock = "free"
    /\ yuvClient \in BOOLEAN
    /\ depCount = 0
    /\ crashes = 0
    /\ ticksDone = 0
    /\ intake0 = EmptyDir
    /\ swept = {}
    /\ signedLog = <<>>
    /\ rejectLog = <<>>
    /\ proofLog = <<>>
    /\ bcastLog = <<>>
    /\ outcomes = {}
    /\ panicAt = ""
    /\ sinceKeyErr = 0
    /\ scanRes = "none"
    /\ fundPc = "idle"
    /\ now = 0
    /\ deadline = 0
    /\ tickStarts = <<>>
    /\ proofTasks = {}
    /\ proofSent = {}
    /\ height = HeightAtStart
    /\ locktime = {}
    /\ evPc = "idle"
    /\ evAll = <<>>
    /\ evLeft = <<>>
    /\ evWritten = EmptyDir
    /\ verdict = ""

NextQueue ==
    \/ TickScanOk
    \/ CycleStep
    \/ Deposit

SpecQueue == InitQueue /\ [][NextQueue]_vars

\* ------------------------------- the locktime and the publishing of proofs
\* A from_height that also accepts the threshold itself.
FromHeight_Inclusive(h) ==
    IF h <= LOCK_TIME_THRESHOLD
    THEN [ok |-> TRUE, value |-> h]
    ELSE [ok |-> FALSE, value |-> 0]

\* bitcoin::LockTime::from_height (sweep.rs:126): Ok(height) when the height
\* is below LOCK_TIME_THRESHOLD, Err otherwise.
FromHeight(h) ==
    IF h < LOCK_TIME_THRESHOLD
    THEN [ok |-> TRUE, value |-> h]
    ELSE [ok |-> FALSE, value |-> 0]

\* sweep.rs:125-126: .map_or(PackedLockTime::ZERO, |l| l.into()).
PackedLockTime(h) ==
    IF FromHeight(h).ok THEN FromHeight(h).value ELSE 0

\* sweep.rs:115-126: the key is resolved, the height of the best block is read
\* and the locktime for the signer is made from it.
KeyOkLocked ==
    /\ KeyOkStep
    /\ locktime' = {PackedLockTime(height)}
    /\ UNCHANGED height

\* The channel manager learns of a new best block (sweep.rs:124 reads the
\* height it holds), while periodic_sweep runs or waits.
BlockConnected ==
    /\ \E h \in Heights :
        /\ h > height
        /\ height' = h
    /\ UNCHANGED <<fsVars, pc, localVars, walletLock, envVars, ticksDone,
                   deposited, swept, logVars, panicAt, sinceKeyErr, scanRes,
                   fundPc, tickVars, netVars, locktime, evVars, verdict>>

\* yuv_client.rs:73-77: broadcast_transactions_proofs spawns a task on the
\* runtime and returns; the proof is not yet with the node.
PublishSpawned ==
    /\ PublishStep
    /\ proofTasks' = proofTasks \cup {Tx(CurBatch, txi)}
    /\ UNCHANGED proofSent

\* What a step of a spawned task leaves unchanged: everything of the loop.
ProofTaskFrame ==
    UNCHANGED <<fsVars, pc, localVars, walletLock, envVars, ticksDone,
                deposited, swept, logVars, panicAt, sinceKeyErr, scanRes,
                fundPc, tickVars, chainVars, evVars, verdict>>

\* yuv_client.rs:78-81: the spawned task runs and provide_yuv_proof returns Ok:
\* the proof is with the token-layer node.
ProofTaskOk ==
    /\ \E tx \in proofTasks :
        /\ proofTasks' = proofTasks \ {tx}
        /\ proofSent' = proofSent \cup {tx}
    /\ ProofTaskFrame

\* yuv_client.rs:82-86: the spawned task runs and provide_yuv_proof returns
\* Err, which is logged.
ProofTaskErr ==
    /\ \E tx \in proofTasks : proofTasks' = proofTasks \ {tx}
    /\ UNCHANGED proofSent
    /\ ProofTaskFrame

\* The process starts at any height of the best block.
InitSubmit ==
    /\ InitRest
    /\ height \in Heights

NextSubmit ==
    \/ TickScanOk
    \/ TickScanMissing
    \/ CycleRest
    \/ KeyOkLocked
    \/ PublishSpawned
    \/ ProofTaskOk
    \/ ProofTaskErr
    \/ BlockConnected
    \/ Deposit

SpecSubmit == InitSubmit /\ [][NextSubmit]_vars

\* ------------------------------------------- the SpendableOutputs handler
\* The name of the file FilesystemStore::write (main.rs:535) first writes the
\* bytes to, in the directory of the key: the key with the extension
\* ".<counter>.tmp", six characters or more.
TmpName(key) == [len |-> NameLen + 6, hex |-> FALSE, id |-> key.id]

\* The key of the iteration under way (main.rs:532).
EventKey == DepositKey(depCount + 1)

\* The kind of the i-th descriptor of an event: the two kinds in turn.
EventTag(i) == IF i % 2 = 1 THEN 1 ELSE 2

\* What a step of the handler leaves unchanged of periodic_sweep.
EventFrame ==
    UNCHANGED <<processing, spendables, pc, outputs, spIter, cur, descs, txs,
                txi, walletLock, yuvClient, crashes, ticksDone, intake0,
                swept, logVars, panicAt, scanRes, fundPc, tickVars, netVars,
                chainVars, verdict>>

\* An intake iterator that is open may or may not yield a file made after it
\* was opened.
MaySee(n) ==
    \E seen \in BOOLEAN :
        dirIter' = IF seen /\ pc = "relocate" THEN dirIter \cup {n} ELSE dirIter

\* main.rs:521: a SpendableOutputs event with k descriptors reaches
\* handle_ldk_events.
EventArrives ==
    /\ evPc = "idle"
    /\ \E k \in 0..(MaxEventDescs - depCount) :
           /\ evAll' = [i \in 1..k |-> Encode(EventTag(i), 20 + depCount + i)]
           /\ evLeft' = evAll'
    /\ evPc' = "loop"
    /\ evWritten' = EmptyDir
    /\ UNCHANGED <<pending, dirs, dirIter, depCount, deposited, sinceKeyErr>>
    /\ EventFrame

\* main.rs:531-535, FilesystemStore::write: a key is drawn, the directory is
\* made and the temporary file is created in it, empty.
EventTmpCreate ==
    /\ evPc = "loop"
    /\ evLeft # <<>>
    /\ pending' = Put(pending, TmpName(EventKey), <<>>)
    /\ dirs' = dirs \cup {"pending"}
    /\ MaySee(TmpName(EventKey))
    /\ evPc' = "fill"
    /\ UNCHANGED <<depCount, deposited, sinceKeyErr, evAll, evLeft, evWritten>>
    /\ EventFrame

\* FilesystemStore::write: the bytes of the descriptor are written to the
\* temporary file, all of them or only the first part so far.
EventTmpFill ==
    /\ evPc = "fill"
    /\ TmpName(EventKey) \in DOMAIN pending
    /\ \E m \in {1, Len(Head(evLeft))} :
        /\ Len(pending[TmpName(EventKey)]) < m
        /\ pending' = Put(pending, TmpName(EventKey), SubSeq(Head(evLeft), 1, m))
        /\ evPc' = IF m = Len(Head(evLeft)) THEN "rename" ELSE "fill"
    /\ UNCHANGED <<dirs, dirIter, depCount, deposited, sinceKeyErr, evAll,
                   evLeft, evWritten>>
    /\ EventFrame

\* The key drawn once for the event, before the loop: every descriptor of the
\* event is stored under it.
EventRename_OneKey ==
    /\ evPc = "rename"
    /\ TmpName(EventKey) \in DOMAIN pending
    /\ pending' = Put(Remove(pending, TmpName(EventKey)),
                      DepositKey(depCount + 1 - Cardinality(DOMAIN evWritten)),
                      pending[TmpName(EventKey)])
    /\ MaySee(DepositKey(depCount + 1 - Cardinality(DOMAIN evWritten)))
    /\ evWritten' = Put(evWritten,
                        DepositKey(depCount + 1 - Cardinality(DOMAIN evWritten)),
                        pending[TmpName(EventKey)])
    /\ deposited' = deposited \cup {Head(evLeft)}
    /\ depCount' = depCount + 1
    /\ sinceKeyErr' = IF sinceKeyErr = 1 THEN 2 ELSE sinceKeyErr
    /\ evLeft' = Tail(evLeft)
    /\ evPc' = "loop"
    /\ UNCHANGED <<dirs, evAll>>
    /\ EventFrame

\* FilesystemStore::write: the temporary file is renamed to the key; the
\* write returns Ok and the loop of main.rs:531 goes on.
EventRename ==
    /\ evPc = "rename"
    /\ TmpName(EventKey) \in DOMAIN pending
    /\ pending' = Put(Remove(pending, TmpName(EventKey)), EventKey,
                      pending[TmpName(EventKey)])
    /\ MaySee(EventKey)
    /\ evWritten' = Put(evWritten, EventKey, pending[TmpName(EventKey)])
    /\ deposited' = deposited \cup {Head(evLeft)}
    /\ depCount' = depCount + 1
    /\ sinceKeyErr' = IF sinceKeyErr = 1 THEN 2 ELSE sinceKeyErr
    /\ evLeft' = Tail(evLeft)
    /\ evPc' = "loop"
    /\ UNCHANGED <<dirs, evAll>>
    /\ EventFrame

\* main.rs:535: the write returns Err at one of its steps and the unwrap
\* panics: the handler does not return.
EventWriteFail ==
    /\ evPc \in {"loop", "fill", "rename"}
    /\ evLeft # <<>>
    /\ evPc' = "panicked"
    /\ UNCHANGED <<pending, dirs, dirIter, depCount, deposited, sinceKeyErr,
                   evAll, evLeft, evWritten>>
    /\ EventFrame

\* main.rs:531,537: the loop over the descriptors is exhausted and the
\* handler returns.
EventReturn ==
    /\ evPc = "loop"
    /\ evLeft = <<>>
    /\ evPc' = "idle"
    /\ UNCHANGED <<pending, dirs, dirIter, depCount, deposited, sinceKeyErr,
                   evAll, evLeft, evWritten>>
    /\ EventFrame

\* The process starts with intake missing, or holding one key, or holding one
\* key and a file an earlier run left under another name.
InitEvent ==
    /\ Init
    /\ pending \in {EmptyDir,
                     (HexA :> Encode(1, 1)),
                     (HexA :> Encode(1, 1)) @@ (TmpAbc :> Encode(1, 3))}

EventStep ==
    \/ EventArrives
    \/ EventTmpCreate
    \/ EventTmpFill
    \/ EventRename
    \/ EventWriteFail
    \/ EventReturn

NextEvent ==
    \/ TickScanOk
    \/ TickScanMissing
    \/ CycleStep
    \/ EventStep

SpecEvent == InitEvent /\ [][NextEvent]_vars

\* ------------------------------------- the scan of the intake may fail
\* No filesystem call fails but the read_dir of the intake (sweep.rs:60), which
\* fails when the directory is missing or cannot be read; the process may be
\* killed and started again.
NextScan ==
    \/ TickScanOk
    \/ TickScanErr
    \/ CycleStep
    \/ Deposit
    \/ Crash

SpecScan == Init /\ [][NextScan]_vars

\* ------------------------------------------- the answers to the dry run
\* sweep.rs:140-154: the dry run of a transaction, the answer of the node
\* kept: Invalid gives a reason and the transaction is passed over.
EmulateRejectAnswered ==
    \E a \in Answers :
        /\ EmulateRejectStep(a)
        /\ verdict' = a

\* sweep.rs:140-146: the dry run of a transaction, the answer of the node kept:
\* Valid, or a call that failed, gives no reason.
EmulateAcceptAnswered ==
    \E a \in Answers :
        /\ EmulateAcceptStep(a)
        /\ verdict' = a

NextVerdict ==
    \/ TickScanOk
    \/ TickScanMissing
    \/ CycleCore
    \/ KeyOk
    \/ Publish
    \/ EmulateRejectAnswered
    \/ EmulateAcceptAnswered
    \/ Deposit

SpecVerdict == Init /\ [][NextVerdict]_vars

\* ----------------------------------------- the wallet handed to a waiter
\* The wallet is a tokio::sync::Mutex (sweep.rs:36, main.rs:197), which grants
\* lock() in the order of the requests.  Here the handler makes its request
\* in the step in which the event reaches it, so that while it waits it is
\* ahead of any request periodic_sweep makes later.

\* main.rs:200-211: a FundingGenerationReady event reaches handle_ldk_events
\* and wallet.lock() is polled: it completes at once when the mutex is free,
\* and the handler joins the queue of the mutex otherwise.
FundingEventPolled ==
    /\ fundPc = "idle"
    /\ IF walletLock = "free"
       THEN walletLock' = "funding" /\ fundPc' = "hold"
       ELSE walletLock' = walletLock /\ fundPc' = "lock"
    /\ FundingFrame

\* The handler is in the queue of the mutex.
HandlerAhead == fundPc = "lock"

\* sweep.rs:114: wallet.lock().await completes when the mutex is free and no
\* earlier request waits for it.
BatchLockFifo ==
    /\ ~HandlerAhead
    /\ BatchLock

\* One step of periodic_sweep when no filesystem call fails and the mutex
\* grants the wallet in the order of the requests.
SweepStepFifo ==
    \/ TickScanOk
    \/ TickScanMissing
    \/ CycleUnlocked
    \/ BatchLockFifo
    \/ KeyOk
    \/ EmulateReject
    \/ EmulateAccept
    \/ Publish

NextHandoff ==
    \/ SweepStepFifo
    \/ Crash
    \/ FundingEventPolled
    \/ FundingAcquire
    \/ FundingRelease

\* Every external call periodic_sweep makes returns and the runtime polls a
\* task that can make progress: a step of periodic_sweep that stays possible
\* is taken, and so is the completion of the handler's lock().
SpecHandoff ==
    /\ Init
    /\ [][NextHandoff]_vars
    /\ WF_vars(SweepStepFifo)
    /\ WF_vars(FundingAcquire)

\* ================================================================= claims
Range(seq) == {seq[i] : i \in 1..Len(seq)}

\* A name of exactly 64 hexadecimal characters.
IsHexKey(n) == n.len = NameLen /\ n.hex

\* The descriptors deposited and not yet in a claim queue that was cleaned up.
Unswept == deposited \ swept

\* A batch was attempted since the tick began (the logs are emptied when the
\* tick begins and when a batch is opened).
BatchAttempted == signedLog # <<>> \/ outcomes # {}

\* The loop over the transactions of the latest batch has been left.
TxLoopLeft == pc \notin {"sign", "tx", "publish", "broadcast"}

\* ------------------------------------------------------------------- C1
\* C1 as stated: in every state a crash can leave behind (the process at its
\* start, the files as the crash left them), every deposited descriptor not
\* yet through a cleanup is held by exactly one file of intake, staging and
\* claim queue, and while nothing has been cleaned up the bytes of the three
\* keyspaces add up to the bytes deposited.
C1_ExactlyOnceAfterCrash ==
    pc = "start" =>
        /\ \A f \in Unswept : Held(f) = 1
        /\ swept = {} => TotalBytes = DepositedBytes

\* C1 as amended: a deposited descriptor not yet through a cleanup is never
\* lost (some file of the three keyspaces holds it) and never in two files of
\* intake and staging, so the bytes never fall below the bytes deposited; it
\* is held exactly once, and the bytes are exactly conserved, while no crash
\* and no panic has happened and the task is not between the write of the
\* claim batch and the removal of staging.
C1_NoLossOnceOutsideWindow ==
    /\ \A f \in Unswept :
        /\ Held(f) >= 1
        /\ HeldIn(pending, f) + HeldIn(processing, f) <= 1
    /\ swept = {} => TotalBytes >= DepositedBytes
    /\ (crashes = 0 /\ Alive /\ pc # "clear") =>
        /\ \A f \in Unswept : Held(f) = 1
        /\ swept = {} => TotalBytes = DepositedBytes

\* A crash has left descriptors in intake, in staging and in the claim queue
\* at once, before any cleanup.
C1_Witness ==
    /\ crashes = 1
    /\ pc = "start"
    /\ swept = {}
    /\ DirFrames(pending) # {}
    /\ DirFrames(processing) # {}
    /\ DirFrames(spendables) # {}

\* ------------------------------------------------------------------- C2
\* The intake the model started from holds only 64-hex-character keys.
OnlyKeys(f) == DOMAIN f # {} /\ \A n \in DOMAIN f : IsHexKey(n)

RECURSIVE CountDescs(_, _)
CountDescs(f, S) ==
    IF S = {} THEN 0
    ELSE LET n == CHOOSE m \in S : TRUE
         IN  Len(DecodeAll(f[n]).descs) + CountDescs(f, S \ {n})

\* D: the descriptors of the intake the model started from.
D0 == CountDescs(intake0, DOMAIN intake0)

\* The first consolidation step has run to its end on the starting intake:
\* no deposit, no crash, every key moved, nothing staged left unread.
Consolidated0 ==
    /\ OnlyKeys(intake0)
    /\ depCount = 0
    /\ crashes = 0
    /\ ticksDone = 0
    /\ pc = "sweep_scan"
    /\ DOMAIN pending = {}
    /\ DirBytes(processing) = 0

OneBatchOf(n) ==
    /\ Cardinality(DOMAIN spendables) = 1
    /\ \A k \in DOMAIN spendables :
        /\ DecodeAll(spendables[k]).ok
        /\ Len(DecodeAll(spendables[k]).descs) = n
        /\ FramesOf(spendables[k]) = DirFrames(intake0)

\* C2 as stated: consolidating N entries that total D descriptors leaves
\* exactly one claim-queue entry, which decodes to D descriptors.
C2_OneBatchOfD == Consolidated0 => OneBatchOf(D0)

\* C2 as amended: the same when D >= 1; when D = 0 no claim-queue entry is
\* written.
C2_OneBatchOfDPositive ==
    Consolidated0 =>
        IF D0 >= 1 THEN OneBatchOf(D0) ELSE DOMAIN spendables = {}

\* Two entries totalling two descriptors have been consolidated.
C2_Witness ==
    /\ Consolidated0
    /\ Cardinality(DOMAIN intake0) = 2
    /\ D0 = 2
    /\ OneBatchOf(2)

C4_BatchKept ==
    (pc = "wait" /\ signedLog # <<>>) =>
        signedLog[1].batch \in DOMAIN spendables

\* ------------------------------------------------------------------- C5
\* C5 as stated: an entry found in intake under a name that is not exactly 64
\* hexadecimal characters stays in intake with its bytes, and none of its
\* descriptors is in the claim queue.
C5_OnlyHexKeysMoved ==
    \A n \in DOMAIN intake0 :
        ~IsHexKey(n) =>
            /\ n \in DOMAIN pending
            /\ pending[n] = intake0[n]
            /\ FramesOf(intake0[n]) \cap DirFrames(spendables) = {}

\* ------------------------------------------------------------------- C6
\* C6 as stated: no failure inside the pipeline ends the loop of
\* periodic_sweep.
C6_LoopNeverEnds == Alive

\* ------------------------------------------------------------------- C7
\* C7: the step that follows a failed key resolution leaves the task alive at
\* the head of the loop over the claim queue, the wallet released, the
\* files and the rest of the iterator as they were: the state a batch
\* leaves when it ends without failure.
C7_KeyFailureContinues ==
    [][(pc = "key" /\ pc' \notin {"key", "sign", "start"}) =>
          /\ pc' = "batch"
          /\ panicAt' = ""
          /\ walletLock' = "free"
          /\ spIter' = spIter
          /\ cur' = {}
          /\ UNCHANGED fsVars]_vars

\* After a key resolution failed and a deposit followed, the descriptor
\* deposited is among those handed to the signer.
C7_Witness ==
    /\ sinceKeyErr = 2
    /\ crashes = 0
    /\ pc = "sign"
    /\ \E f \in Range(descs) : DescId(f) > 20

\* ------------------------------------------------------------------- C8
\* C8: once the loop over the transactions of a batch is left, a transaction
\* that came after a rejected one and was not itself rejected has had its
\* proof published and has been broadcast.
C8_RejectionSkipsOnlyItself ==
    TxLoopLeft =>
        \A i, j \in 1..Len(signedLog) :
            (i < j /\ signedLog[i] \in Range(rejectLog)
                   /\ signedLog[j] \notin Range(rejectLog)) =>
                /\ signedLog[j] \in Range(proofLog)
                /\ signedLog[j] \in Range(bcastLog)

\* A batch of two transactions: the first rejected, the second broadcast.
C8_Witness ==
    /\ TxLoopLeft
    /\ Len(signedLog) = 2
    /\ rejectLog = <<signedLog[1]>>
    /\ bcastLog = <<signedLog[2]>>

\* ------------------------------------------------------------------- C9
\* C9 as stated: without a token-layer client, once the loop over the
\* transactions of a batch is left, the transactions broadcast are the
\* transactions signed, in the same order (what a client that accepts
\* everything gives).
C9_SameBroadcastsWithoutClient ==
    (~yuvClient /\ TxLoopLeft) => bcastLog = signedLog

\* ------------------------------------------------------------------ C10
\* The scenario: intake holds one key with a 40-byte and a 55-byte descriptor.
Scenario95 ==
    /\ intake0 = (HexA :> (Encode(1, 1) \o Encode(2, 11)))
    /\ depCount = 0
    /\ crashes = 0

\* The consolidation has run to its end: the key moved, nothing staged unread.
Consolidated95 == HexA \notin DOMAIN pending /\ DirBytes(processing) = 0

OneEntryOf95 ==
    /\ Cardinality(DOMAIN spendables) = 1
    /\ \A k \in DOMAIN spendables : Len(spendables[k]) = 95

DepositFrames ==
    {Encode(t, 20 + k) : t \in Tags, k \in 1..MaxDeposits}

\* The descriptor is on disk where a tick finds it: in intake under a name of
\* 64 characters, in staging, or in the claim queue.
HeldForSweep(f) ==
    \/ \E n \in DOMAIN pending : Conforming(n) /\ f \in FramesOf(pending[n])
    \/ f \in DirFrames(processing)
    \/ f \in DirFrames(spendables)

\* The batch holding the descriptor is being attempted: it was decoded, the
\* wallet is locked and the destination key is asked for.
Attempting(f) == pc = "key" /\ f \in Range(descs)

\* C11 as stated, of the descriptor a deposit stored: when it is on disk as
\* the process starts again after a crash, a later tick gives it a sweep
\* attempt, no filesystem call failing and no further deposit being needed.
C11_AttemptedAfterRestart ==
    (crashes >= 1 /\ pc = "start" /\ \E f \in DepositFrames : HeldForSweep(f))
        ~> (\E f \in DepositFrames : Attempting(f))

\* ------------------------------------------------------------------ C12
\* The step completes the await of the interval and scans the intake: an
\* iteration of the loop begins.
TickBegins ==
    \/ pc' = "relocate" /\ pc # "relocate"
    \/ pc' = "sweep_scan" /\ scanRes' = "err" /\ scanRes # "err"

\* No iteration of the loop is under way: the task is at the await, nothing
\* of a consolidation or of a sweep is held in memory, the wallet is not
\* locked by the task.
CycleOver ==
    /\ pc \in {"start", "wait"}
    /\ scanRes = "none"
    /\ dirIter = {}
    /\ outputs = <<>>
    /\ spIter = {}
    /\ cur = {}
    /\ walletLock # "sweep"

\* C12: an iteration of the loop begins only when none is under way, and when
\* the one before it attempted a batch, only after its cleanup removed the
\* claim queue.
C12_TicksSequential ==
    [][TickBegins =>
          /\ CycleOver
          /\ (pc = "wait" /\ BatchAttempted) => "spendables" \notin dirs]_vars

\* A second iteration has begun after the first swept a batch and cleaned up.
C12_Witness ==
    /\ pc = "relocate"
    /\ scanRes \in {"ok", "empty"}
    /\ ticksDone >= 1
    /\ crashes = 0
    /\ swept # {}
    /\ "spendables" \notin dirs

\* ------------------------------------------------------------------ C13
\* C13 as stated: a tick never starts less than a period after the tick
\* before it, however long that one ran.
C13_NoCatchUpTicks ==
    Len(tickStarts) = 2 => tickStarts[2] - tickStarts[1] >= Period

\* C13 as amended: the deadlines stay on the schedule fixed when the interval
\* was made, a period apart from the start of the task, whatever the overrun
\* of an iteration, and no tick starts before its deadline: after an overrun
\* the ticks whose deadlines have passed follow one another at once.
C13_BurstKeepsSchedule ==
    /\ deadline % Period = 0
    /\ tickStarts # <<>> => tickStarts[Len(tickStarts)] >= deadline - Period

\* An iteration overran two deadlines and the next two ticks started in the
\* same second.
C13_Witness ==
    /\ Len(tickStarts) = 2
    /\ tickStarts[1] = tickStarts[2]
    /\ tickStarts[2] >= 2 * Period
    /\ deadline = 3 * Period

\* ------------------------------------------------------------------ C14
\* C14 as stated: the first iteration after a restart does not end before
\* every claim batch it found has been opened for its attempt: when the task
\* has stopped in that iteration, no batch still to be opened holds a
\* descriptor that was on disk from the start and is not in the batch being
\* attempted.
C14_LeftoversAttemptedAtRestart ==
    (crashes >= 1 /\ ticksDone = 0 /\ ~Alive) =>
        \A n \in spIter :
            FramesOf(spendables[n]) \cap DirFrames(intake0) \subseteq Range(descs)

\* ------------------------------------------------------------------ C15
\* C15: whatever sequence of descriptors the bytes of a claim-queue entry are
\* the concatenation of, decoding the entry succeeds and yields exactly that
\* sequence, in that order, and nothing after it.
C15_DecodeInvertsConcat ==
    /\ pc = "batch" => \A n \in spIter : DecodeAll(spendables[n]).ok
    /\ pc = "lock" =>
          \A seq \in DescSeqs(QueueFrames \cup DepositFrames) :
              spendables[CurBatch] = Flatten(seq) => descs = seq

\* An entry made of a 40-byte and a 55-byte descriptor has been decoded to
\* these two.
C15_Witness ==
    /\ pc = "lock"
    /\ Len(descs) = 2
    /\ Len(descs[1]) = 40
    /\ Len(descs[2]) = 55
    /\ spendables[CurBatch] = descs[1] \o descs[2]
    /\ Len(spendables[CurBatch]) = 95

\* ------------------------------------------------------------------ C16
\* periodic_sweep is between the key resolution and the end of the attempt of
\* a batch.
SweepUsesWallet == pc \in {"key", "sign", "tx", "publish", "broadcast"}

\* The FundingGenerationReady handler is past its wallet.lock().await.
FundingUsesWallet == fundPc = "hold"

\* C16: the sweep of a batch and the funding handler never use the wallet at
\* the same time, and whichever uses it is the holder of its mutex.
C16_WalletExclusive ==
    /\ ~(SweepUsesWallet /\ FundingUsesWallet)
    /\ SweepUsesWallet => walletLock = "sweep"
    /\ FundingUsesWallet => walletLock = "funding"

\* The sweep has decoded a batch and awaits the wallet, which the funding
\* handler holds.
C16_Witness ==
    /\ pc = "lock"
    /\ cur # {}
    /\ fundPc = "hold"
    /\ walletLock = "funding"

\* ------------------------------------------------------------------ C17
\* The consolidation step of the iteration has run to its end.
ConsolidationOver == pc = "sweep_scan" /\ scanRes \in {"ok", "empty"}

\* C17 as stated: after every completed consolidation step staging is empty,
\* also when everything staged was empty and no claim batch was written.
C17_StagingClearedWhenEmpty ==
    ConsolidationOver => (processing = EmptyDir /\ "processing" \notin dirs)

\* ------------------------------------------------------------------ C18
\* The task is in the consolidation step of an iteration whose scan found no
\* entry in intake, and the iterator has nothing left to yield.
ConsolidatingEmptyIntake ==
    /\ scanRes = "empty"
    /\ dirIter = {}
    /\ pc \in {"relocate", "concat", "commit", "clear"}

\* C18 as stated: such a consolidation step changes neither staging nor the
\* claim queue, also when staging holds entries of an interrupted
\* consolidation.
C18_NoOpOnEmptyIntake ==
    [][ConsolidatingEmptyIntake =>
          (processing' = processing /\ spendables' = spendables)]_vars

\* The claim queue gains one entry: the bytes staged, in some order.
WritesStagedBatch ==
    /\ processing' = processing
    /\ \E k \in DOMAIN spendables' \ DOMAIN spendables :
        /\ spendables' = Put(spendables, k, spendables'[k])
        /\ \E order \in Orders(DOMAIN processing) :
              spendables'[k] = ConcatFiles(processing, order)

\* C18 as amended: such a consolidation step moves nothing out of intake; it
\* changes neither staging nor the claim queue when nothing staged holds a
\* byte; when staging holds bytes of an interrupted consolidation it writes
\* them as one claim batch and then removes staging.
C18_EmptyIntakeResumesStaging ==
    [][ConsolidatingEmptyIntake =>
          /\ pending' = pending \/ depCount' # depCount
          /\ (pc = "commit" /\ pc' = "sweep_scan") =>
                /\ DirBytes(processing) = 0
                /\ processing' = processing /\ spendables' = spendables
          /\ (pc = "commit" /\ pc' = "clear") =>
                DirBytes(processing) > 0 /\ WritesStagedBatch
          /\ (pc = "clear" /\ pc' = "sweep_scan") =>
                /\ processing' = EmptyDir /\ "processing" \notin dirs'
                /\ spendables' = spendables
          /\ (pc' = pc \/ pc' \in {"concat", "commit", "start"}) =>
                (processing' = processing /\ spendables' = spendables)]_vars

\* After a restart, with no deposit made, a tick found intake empty and has
\* consolidated what an interrupted consolidation had left in staging.
C18_Witness ==
    /\ ConsolidationOver
    /\ scanRes = "empty"
    /\ crashes = 1
    /\ depCount = 0
    /\ processing = EmptyDir
    /\ Cardinality(DOMAIN spendables) = 1
    /\ DirFrames(spendables) = DirFrames(intake0)
    /\ Cardinality(DOMAIN intake0) = 2

\* ------------------------------------------------------------------ C19
\* The steps of the consolidation at which a filesystem call can fail.
ConsolidationFailures == {"relocate", "concat", "write", "clear"}

\* C19 as stated: a filesystem failure during the consolidation ends only the
\* iteration it happens in: the task is alive to scan again at the next tick.
C19_ConsolidationFailureRetried ==
    panicAt \in ConsolidationFailures => Alive

ConsolidatedAll ==
    /\ ConsolidationOver
    /\ \A n \in DOMAIN pending : ~Conforming(n)
    /\ DirBytes(processing) = 0
    /\ swept = {}

\* The descriptors deposited under names the relocation moves.
DepositedConforming == deposited \ DirFrames(pending)

\* Staging changes only by a move of the iteration under way, which adds one
\* entry of intake with its bytes, or by the removal that follows the write of
\* a claim batch; and the read of the consolidation takes every entry staged,
\* those moved in this iteration and those an earlier one left, once each.
StagingReadWhole ==
    /\ processing' # processing =>
          \/ /\ pc = "relocate"
             /\ \E n \in dirIter \cap DOMAIN pending :
                   /\ Conforming(n)
                   /\ processing' = Put(processing, n, pending[n])
                   /\ pending' = Remove(pending, n) \/ depCount' # depCount
          \/ pc = "clear" /\ processing' = EmptyDir
    /\ (pc = "concat" /\ pc' = "commit" /\ "processing" \in dirs) =>
          \E order \in Orders(DOMAIN processing) :
              outputs' = ConcatFiles(processing, order)

\* C21 as stated: what a consolidation reads is what the iteration moved into
\* staging and what an earlier one left there, and once a consolidation has
\* run to its end, interrupted by a crash and resumed or not, the claim queue
\* holds every descriptor deposited under a conforming name exactly once.
C21_ResumeIdempotent ==
    /\ [][StagingReadWhole]_vars
    /\ [](ConsolidatedAll =>
            \A f \in DepositedConforming : HeldIn(spendables, f) = 1)

\* C21 as amended: what a consolidation reads is what the iteration moved into
\* staging and what an earlier one left there, and once a consolidation has
\* run to its end the claim queue holds the descriptors deposited under
\* conforming names and no other, each once when no crash happened, each at
\* most once more per crash otherwise.
C21_ResumeKeepsAll ==
    /\ [][StagingReadWhole]_vars
    /\ [](ConsolidatedAll =>
            /\ DirFrames(spendables) = DepositedConforming
            /\ \A f \in DepositedConforming :
                  /\ HeldIn(spendables, f) \in 1..(crashes + 1)
                  /\ crashes = 0 => HeldIn(spendables, f) = 1)

\* A crash fell between the write of the claim batch and the removal of
\* staging, and the consolidation that resumed wrote the two descriptors
\* staged a second time.
C21_Witness ==
    /\ ConsolidatedAll
    /\ crashes = 1
    /\ Cardinality(DOMAIN spendables) = 2
    /\ Cardinality(DepositedConforming) = 2
    /\ \A f \in DepositedConforming : HeldIn(spendables, f) = 2

\* ------------------------------------------------------------------ C22
\* A transaction of the batch is with the token-layer validator, or its proof
\* is being published, or it is being broadcast.
ValidatingOrBroadcasting ==
    \/ pc = "tx" /\ txi <= txs
    \/ pc \in {"publish", "broadcast"}

\* C22 as stated: the wallet is released once the batch is signed: periodic_sweep
\* does not hold it while a transaction is validated or broadcast, and the
\* funding handler awaiting the wallet can take it then.
C22_ReleasedAfterSigning ==
    ValidatingOrBroadcasting =>
        /\ walletLock # "sweep"
        /\ fundPc = "lock" => ENABLED FundingAcquire

\* C22 as amended: periodic_sweep holds the wallet from before the key
\* resolution to the end of the attempt of the batch, validation and
\* broadcast of every transaction included, and at no other time; the funding
\* handler never acquires the wallet during that span.
C22_HeldThroughAttempt ==
    /\ [](walletLock = "sweep" <=> SweepUsesWallet)
    /\ [][(fundPc = "lock" /\ fundPc' = "hold") =>
            (~SweepUsesWallet /\ ~ValidatingOrBroadcasting)]_vars

\* The funding handler awaits the wallet while a transaction of the sweep is
\* being broadcast, periodic_sweep holding the wallet.
C22_Witness ==
    /\ pc = "broadcast"
    /\ fundPc = "lock"
    /\ walletLock = "sweep"

\* ------------------------------------------------------------------ C23
\* The step hands a transaction to the broadcaster of the base chain.
Broadcasts(tx) == bcastLog' = Append(bcastLog, tx)

\* C23 as stated: when a transaction is broadcast to the base chain its proof
\* has been submitted to the token-layer node.
C23_ProofSubmittedFirst ==
    [][\A tx \in Range(bcastLog') \ Range(bcastLog) : tx \in proofSent]_vars

\* C23 as amended: when a transaction is broadcast to the base chain it has
\* passed the dry run and broadcast_transactions_proofs has been called for
\* it; the call only spawns the task that submits the proof, when the
\* transaction is not yet broadcast, and a proof reaches the node only by such
\* a task, before the broadcast or after it, or never.
C23_ProofHandedFirst ==
    [][/\ \A tx \in Range(bcastLog') \ Range(bcastLog) :
             /\ Broadcasts(tx)
             /\ tx \in Range(proofLog)
             /\ tx \notin Range(rejectLog)
       /\ \A tx \in proofTasks' \ proofTasks :
             /\ proofLog' = Append(proofLog, tx)
             /\ tx \notin Range(bcastLog')
             /\ tx \notin Range(rejectLog)
       /\ \A tx \in proofSent' \ proofSent : tx \in proofTasks]_vars

\* A transaction has been broadcast to the base chain while the task that is
\* to submit its proof has not run.
C23_Witness ==
    /\ bcastLog # <<>>
    /\ bcastLog[1] \in proofTasks
    /\ bcastLog[1] \notin proofSent

\* ------------------------------------------------------------------ C24
\* C24: a transaction the dry run rejected has neither its proof published nor
\* is it broadcast while its batch is attempted, and the step that rejects it
\* logs it and does nothing else than pass to the next transaction of the
\* batch, the task alive and the wallet still held.
C24_RejectedNeverSent ==
    /\ [](\A tx \in Range(rejectLog) :
            tx \notin Range(proofLog) /\ tx \notin Range(bcastLog))
    /\ [][(rejectLog' # rejectLog /\ rejectLog' # <<>>) =>
            /\ rejectLog' = Append(rejectLog, Tx(CurBatch, txi))
            /\ pc' = "tx"
            /\ txi' = txi + 1
            /\ txs' = txs
            /\ cur' = cur
            /\ walletLock' = walletLock
            /\ UNCHANGED <<fsVars, proofLog, bcastLog, signedLog>>]_vars

\* The first transaction of a batch was published and broadcast, the second
\* was rejected, and the loop over the batch has gone past it.
C24_Witness ==
    /\ pc = "tx"
    /\ txi = 3
    /\ Len(signedLog) = 2
    /\ rejectLog = <<signedLog[2]>>
    /\ proofLog = <<signedLog[1]>>
    /\ bcastLog = <<signedLog[1]>>

\* ------------------------------------------------------------------ C25
\* Nothing of the latest batch was validated, published or broadcast.
NothingSent ==
    /\ signedLog = <<>>
    /\ rejectLog = <<>>
    /\ proofLog = <<>>
    /\ bcastLog = <<>>

InSweepPhase ==
    pc \in {"sweep_scan", "batch", "lock", "key", "sign", "tx", "publish",
            "broadcast", "cleanup"}

\* The step is one of the SpendableOutputs handler: a descriptor is stored.
HandlerStep == depCount' # depCount

\* The step takes the entry n out of intake and puts it, with its bytes, into
\* staging.
MovesToStaging(n) ==
    /\ pending' = Remove(pending, n)
    /\ processing' = Put(processing, n, pending[n])

\* C26 as stated: intake gains an entry only by a step of the SpendableOutputs
\* handler; a step of periodic_sweep changes intake only by moving an entry
\* whose name is 64 hexadecimal characters to staging, and no step of its
\* sweep phase changes intake or staging.
C26_IntakeFrame ==
    [][/\ (pending' # pending /\ ~HandlerStep) =>
             /\ pc = "relocate"
             /\ \E n \in DOMAIN pending : IsHexKey(n) /\ MovesToStaging(n)
       /\ (pending' # pending /\ HandlerStep) =>
             \E k \in DOMAIN pending' \ DOMAIN pending :
                 pending' = Put(pending, k, pending'[k])
       /\ (InSweepPhase /\ ~HandlerStep) =>
             (pending' = pending /\ processing' = processing)]_vars

\* ------------------------------------------------------------------ C27
\* The handler has returned from an event that carried descriptors.
HandlerReturned == evPc = "idle" /\ evAll # <<>>

\* C27: when the handler of a SpendableOutputs event of k descriptors returns,
\* it has written k intake entries under k different keys of 64 hexadecimal
\* characters, each holding exactly one descriptor of the event and every
\* descriptor of the event held by one; each was written into intake whole by
\* the step that stored it.
C27_EveryDescriptorPersisted ==
    /\ [](HandlerReturned =>
            /\ evLeft = <<>>
            /\ Cardinality(DOMAIN evWritten) = Len(evAll)
            /\ \A k \in DOMAIN evWritten :
                  /\ IsHexKey(k)
                  /\ DecodeAll(evWritten[k]).ok
                  /\ Len(DecodeAll(evWritten[k]).descs) = 1
            /\ {evWritten[k] : k \in DOMAIN evWritten} = Range(evAll)
            /\ Range(evAll) \subseteq deposited)
    /\ [][\A k \in DOMAIN evWritten' \ DOMAIN evWritten :
            /\ k \notin DOMAIN pending
            /\ k \notin DOMAIN processing
            /\ k \notin DOMAIN spendables
            /\ k \in DOMAIN pending'
            /\ pending'[k] = evWritten'[k]
            /\ pending'[k] = Head(evLeft)]_vars

\* The handler has returned from an event of two descriptors, of 40 and of 55
\* bytes, and both entries are still in intake.
C27_Witness ==
    /\ HandlerReturned
    /\ Len(evAll) = 2
    /\ Cardinality(DOMAIN evWritten) = 2
    /\ \A k \in DOMAIN evWritten : k \in DOMAIN pending
    /\ {Len(evWritten[k]) : k \in DOMAIN evWritten} = {40, 55}

\* ------------------------------------------------------------------ C28
\* C28: the step that resolves the key and goes on to the signer hands it a
\* locktime that is the height of the best block at that step when the height
\* is below 500,000,000, and zero when it is not.
C28_LocktimeIsHeightOrZero ==
    [][(pc = "key" /\ pc' = "sign") =>
          /\ Cardinality(locktime') = 1
          /\ \A l \in locktime' :
                /\ height < 500000000 => l = height
                /\ height >= 500000000 => l = 0
                /\ l \in {height, 0}]_vars

\* With the best block at height 500,000,000 exactly, the signer was handed
\* the locktime zero.
C28_Witness ==
    /\ pc = "sign"
    /\ height = 500000000
    /\ locktime = {0}

\* ------------------------------------------------------------------ C29
\* The descriptors the three keyspaces hold.
OnDisk ==
    DirFrames(pending) \cup DirFrames(processing) \cup DirFrames(spendables)

\* C29: every descriptor deposited and not yet in a claim queue that a cleanup
\* removed is in intake, in staging or in the claim queue; a step that takes a
\* descriptor out of intake leaves it in staging, one that takes it out of
\* staging leaves it in the claim queue, and only the cleanup, reached when
\* every batch found has been opened, takes it out of the claim queue.
C29_NoLossBeforeSweep ==
    /\ [](Unswept \subseteq OnDisk)
    /\ [][/\ DirFrames(pending) \ DirFrames(pending')
              \subseteq DirFrames(processing')
          /\ DirFrames(processing) \ DirFrames(processing')
              \subseteq DirFrames(spendables')
          /\ DirFrames(spendables) \ DirFrames(spendables') # {} =>
                /\ pc = "cleanup"
                /\ spIter = {}
                /\ DirFrames(spendables) \subseteq swept']_vars

\* After a crash that left a claim batch not cleaned up, a consolidation has
\* written the batch of a later deposit beside it.
C29_Witness ==
    /\ crashes = 1
    /\ depCount = 1
    /\ swept = {}
    /\ pc = "clear"
    /\ Cardinality(DOMAIN spendables) = 2
    /\ \A k1, k2 \in DOMAIN spendables :
          k1 # k2 => FramesOf(spendables[k1]) \cap FramesOf(spendables[k2]) = {}
    /\ deposited \subseteq OnDisk

\* ------------------------------------------------------------------ C30
\* The bytes are those of descriptors the handler stored, none cut short.
Whole(bytes) ==
    /\ DecodeAll(bytes).ok
    /\ FramesOf(bytes) \subseteq deposited
    /\ bytes = <<>> \/ FramesOf(bytes) # {}

\* The names of 64 characters of a directory.
KeysOf(f) == {n \in DOMAIN f : n.len = NameLen}

\* C30: while the handler stores descriptors and periodic_sweep runs, every
\* file of intake under a name of 64 characters and every file of staging
\* holds whole descriptors, staging holds no file under another name, what the
\* consolidation has read is whole descriptors, no descriptor stored is
\* missing from disk before a cleanup of the claim queue, periodic_sweep
\* removes no file of intake under another name, and the removal of staging
\* deletes only descriptors that the claim queue holds.
C30_ConcurrentDepositWhole ==
    /\ [](/\ \A n \in KeysOf(pending) : Whole(pending[n])
          /\ DOMAIN processing = KeysOf(processing)
          /\ \A n \in DOMAIN processing : Whole(processing[n])
          /\ Whole(outputs)
          /\ Unswept \subseteq OnDisk)
    /\ [][/\ \A n \in DOMAIN pending \ DOMAIN pending' :
                n.len # NameLen => (evPc = "rename" /\ evPc' = "loop")
          /\ \A n \in KeysOf(pending) \ DOMAIN pending' :
                /\ n \in DOMAIN processing'
                /\ processing'[n] = pending[n]
          /\ (pc = "clear" /\ processing' # processing) =>
                DirFrames(processing) \subseteq DirFrames(spendables)]_vars

\* The handler is writing the second descriptor of an event, its temporary
\* file holding the first byte only, while the iteration under way has moved
\* the first descriptor of the event into staging and is about to read it.
C30_Witness ==
    /\ pc = "concat"
    /\ evPc = "fill"
    /\ TmpName(EventKey) \in DOMAIN pending
    /\ Len(pending[TmpName(EventKey)]) = 1
    /\ Cardinality(DOMAIN evWritten) = 1
    /\ \A k \in DOMAIN evWritten : k \in DOMAIN processing

\* ------------------------------------------------------------------ C31
\* The descriptor is among those handed to spend_yuv_spendable_outputs.
PassedToSigner(f) == pc = "sign" /\ f \in Range(descs)

\* The descriptor sits in intake under a name of 64 characters: its deposit
\* has completed and no iteration of the loop has moved it so far.
InIntake(f) ==
    \E n \in DOMAIN pending : Conforming(n) /\ f \in FramesOf(pending[n])

\* C31 as stated, of the descriptor a deposit stored, in a run where no
\* filesystem call fails, the process is not killed and no key resolution
\* fails: once it sits in intake, an iteration of the loop hands it to the
\* signer.
C31_DepositedEventuallySigned ==
    (crashes = 0 /\ sinceKeyErr = 0 /\ \E f \in DepositFrames : InIntake(f))
        ~> (\/ crashes > 0
            \/ sinceKeyErr > 0
            \/ \E f \in DepositFrames : PassedToSigner(f))

\* ------------------------------------------------------------------ C32
\* The part of the first iteration after a restart that comes before the
\* sweep phase is over.
FirstConsolidationAfterRestart ==
    /\ crashes >= 1
    /\ ticksDone = 0
    /\ pc = "sweep_scan"

\* C32 as stated: whatever the scan of the intake gave in the first iteration
\* after a restart (no directory, no entry, or entries under names that are
\* not moved), staging holds no descriptor when the consolidation part of the
\* iteration is over: what was staged is in the claim queue.
C32_StagedConsolidatedAtRestart ==
    FirstConsolidationAfterRestart =>
        /\ DirFrames(processing) = {}
        /\ Unswept \ DirFrames(pending) \subseteq DirFrames(spendables)

\* C32 as amended: when the scan of the intake succeeded in the first
\* iteration after a restart, whether it found entries or none, staging holds
\* no descriptor when the consolidation part of the iteration is over and the
\* claim queue holds every descriptor that is neither in intake nor cleaned
\* up; when the scan failed (the directory missing or unreadable) the
\* iteration leaves staging as it was.
C32_StagedConsolidatedWhenScanned ==
    /\ []((FirstConsolidationAfterRestart /\ scanRes \in {"ok", "empty"}) =>
            /\ DirFrames(processing) = {}
            /\ Unswept \ DirFrames(pending) \subseteq DirFrames(spendables))
    /\ [][(scanRes = "err" \/ scanRes' = "err") =>
            processing' = processing]_vars

\* After a crash that followed the relocation of the only entry of intake, of
\* two descriptors, with no deposit made, the first iteration found intake
\* empty and has written the 95 bytes staged as one claim batch.
C32_Witness ==
    /\ FirstConsolidationAfterRestart
    /\ scanRes = "empty"
    /\ crashes = 1
    /\ depCount = 0
    /\ Cardinality(DOMAIN intake0) = 1
    /\ "processing" \notin dirs
    /\ Cardinality(DOMAIN spendables) = 1
    /\ \A k \in DOMAIN spendables : Len(spendables[k]) = 95

\* ------------------------------------------------------------------ C33
\* No descriptor is in two claim batches, and none handed to the signer was in
\* a claim queue that a cleanup removed.
AtMostOnce ==
    /\ \A f \in deposited : HeldIn(spendables, f) <= 1
    /\ pc = "sign" => Range(descs) \cap swept = {}

\* C33 as stated, of a run without crash and without filesystem failure: no
\* descriptor is in two claim batches or handed to the signer a second time,
\* the claim queue is empty whenever the task awaits a tick, and a claim batch
\* that was written is deleted by the iteration that wrote it.
C33_OneBatchSweptInItsTick ==
    /\ [](crashes = 0 => AtMostOnce)
    /\ []((crashes = 0 /\ pc \in {"start", "wait"}) => spendables = EmptyDir)
    /\ (crashes = 0 /\ spendables # EmptyDir)
           ~> (crashes > 0 \/ spendables = EmptyDir)

\* ------------------------------------------------------------------ C34
\* The step is the dry run of the transaction under way: it either goes on to
\* the publishing of the proof or passes to the next transaction.
DryRunStep ==
    /\ pc = "tx"
    /\ txi <= txs
    /\ pc' = "publish" \/ (pc' = "tx" /\ txi' = txi + 1)

\* C34: a dry run whose call failed gives no reason, as one the node answered
\* Valid; a dry run gives a reason, and its transaction is logged and passed
\* over, exactly when the node answered Invalid; after the other two answers
\* the transaction goes on, unlogged, to the publishing of its proof, which is
\* followed by its broadcast to the base chain.
C34_CallFailureIsAcceptance ==
    /\ [](/\ EmulateResult("rpc_error") = EmulateResult("valid")
          /\ EmulateResult("rpc_error") = "none"
          /\ EmulateResult("invalid") # "none")
    /\ [][DryRunStep =>
            /\ verdict' \in Answers
            /\ verdict' = "invalid" <=>
                  /\ pc' = "tx"
                  /\ rejectLog' = Append(rejectLog, Tx(CurBatch, txi))
            /\ verdict' \in {"valid", "rpc_error"} <=>
                  /\ pc' = "publish"
                  /\ txi' = txi
                  /\ rejectLog' = rejectLog]_vars
    /\ [](pc \in {"publish", "broadcast"} =>
            /\ verdict \in {"valid", "rpc_error"}
            /\ Tx(CurBatch, txi) \notin Range(rejectLog))
    /\ [][(pc = "publish" /\ pc' # "publish") =>
            /\ pc' = "broadcast"
            /\ proofLog' = Append(proofLog, Tx(CurBatch, txi))]_vars
    /\ [][(pc = "broadcast" /\ pc' # "broadcast") =>
            /\ pc' = "tx"
            /\ bcastLog' = Append(bcastLog, Tx(CurBatch, txi))
            /\ verdict' = verdict]_vars
    /\ [](\A tx \in Range(rejectLog) : tx \notin Range(bcastLog))

\* The call of the dry run of the first transaction of a batch failed, and
\* the transaction has had its proof published and has been broadcast; the
\* second transaction is still to be dealt with.
C34_Witness ==
    /\ pc = "tx"
    /\ txi = 2
    /\ txs = 2
    /\ verdict = "rpc_error"
    /\ rejectLog = <<>>
    /\ proofLog = <<signedLog[1]>>
    /\ bcastLog = <<signedLog[1]>>

\* ------------------------------------------------------------------ C35
\* The handler awaits the wallet.
HandlerWaits == fundPc = "lock"

\* C35: the step that ends the attempt of a batch, by a failed key
\* resolution, a failed signing, the last transaction rejected or broadcast,
\* or a panic, releases the wallet; periodic_sweep holds the wallet only
\* while it attempts one batch; while the handler waits periodic_sweep does
\* not take the wallet again, so that the handler has it before the next
\* batch of the tick is attempted; and a handler that waits acquires the wallet
\* unless the process is killed.
C35_WalletHandedBetweenBatches ==
    /\ [][(walletLock = "sweep" /\ ~SweepUsesWallet') =>
            walletLock' # "sweep"]_vars
    /\ [](walletLock = "sweep" => (Cardinality(cur) = 1 /\ pc # "lock"))
    /\ [][(HandlerWaits /\ walletLock # "sweep") =>
            walletLock' # "sweep"]_vars
    /\ []((HandlerWaits /\ walletLock = "free") => ENABLED FundingAcquire)
    /\ HandlerWaits ~> (fundPc = "hold" \/ pc = "start")

\* The attempt of the first of two claim batches has ended and released the
\* wallet while the handler waited for it: periodic_sweep has opened the second
\* batch and awaits the wallet behind the handler.
C35_Witness ==
    /\ pc = "lock"
    /\ cur # {}
    /\ spIter = {}
    /\ Cardinality(DOMAIN spendables) = 2
    /\ HandlerWaits
    /\ walletLock = "free"

====
